---- MODULE Spec2Model ----
(***************************************************************************)
(* Query front end of the SQuirreL database tool: the tokenizer            *)
(* (src/query/lexer.rs) and the recursive-descent parser                   *)
(* (src/query/parser.rs).                                                  *)
(*                                                                         *)
(* A source text is a sequence of one-character strings.  A token is a     *)
(* record [kind, val]: kind is the name of the Token variant and val its   *)
(* payload as a character sequence (<<>> when the variant has none).       *)
(* A Result<Token> is [ok, kind, val]: for ok = FALSE kind names the       *)
(* QueryErr variant and val is its payload.                                *)
(***************************************************************************)
EXTENDS Integers, Sequences, FiniteSets, TLC

\* ------------------------------------------------------------------------
\* Characters
\* ------------------------------------------------------------------------
LowerSeq ==
    <<"a","b","c","d","e","f","g","h","i","j","k","l","m",
      "n","o","p","q","r","s","t","u","v","w","x","y","z">>

UpperSeq ==
    <<"A","B","C","D","E","F","G","H","I","J","K","L","M",
      "N","O","P","Q","R","S","T","U","V","W","X","Y","Z">>

SeqRange(s) == { s[i] : i \in 1..Len(s) }

DigitSeq == <<"0","1","2","3","4","5","6","7","8","9">>

\* char::is_whitespace (the white-space characters the inputs use)
is_whitespace(ch) == ch \in {" ", "\n", "\t", "\r"}

\* Lexer::is_letter: ch.is_alphabetic() || ch == '_'
is_letter(ch) == ch \in SeqRange(LowerSeq) \cup SeqRange(UpperSeq) \cup {"_"}

\* Lexer::is_digit: ch.is_ascii_digit()
is_digit(ch) == ch \in SeqRange(DigitSeq)

\* char upper-casing, as str::to_uppercase applies it to each character
ToUpperCh(ch) ==
    IF ch \in SeqRange(LowerSeq)
    THEN UpperSeq[CHOOSE i \in 1..Len(LowerSeq) : LowerSeq[i] = ch]
    ELSE ch

to_uppercase(s) == [i \in 1..Len(s) |-> ToUpperCh(s[i])]

\* ------------------------------------------------------------------------
\* Results and tokens
\* ------------------------------------------------------------------------
Tok(kind, val) == [kind |-> kind, val |-> val]

Ok(kind, val) == [ok |-> TRUE, kind |-> kind, val |-> val]

Err(kind, val) == [ok |-> FALSE, kind |-> kind, val |-> val]

\* a lexer step: the result of the call and the characters left in src
Step(res, src) == [res |-> res, src |-> src]

\* Lexer::peek(step): the first `step` characters of src
LexPeek(s, step) == SubSeq(s, 1, IF Len(s) < step THEN Len(s) ELSE step)

\* Lexer::skip_ws: drop leading white space
RECURSIVE skip_ws(_)
skip_ws(s) ==
    IF s # <<>> /\ is_whitespace(Head(s)) THEN skip_ws(Tail(s)) ELSE s

\* skip_comment that does not stop at the newline
skip_comment_all(s) == <<>>

\* the comment loop of Lexer::next: walk until a newline has been walked
\* or the input is exhausted
RECURSIVE skip_comment(_)
skip_comment(s) ==
    IF s = <<>> THEN s
    ELSE IF Head(s) = "\n" THEN Tail(s)
    ELSE skip_comment(Tail(s))

\* ------------------------------------------------------------------------
\* Lexer::lex_text
\* ------------------------------------------------------------------------
\* Escape that drops the backslash of an unknown escape
Escape_drop(ch, esc) ==
    CASE esc = "n"  -> <<"\n">>
      [] esc = "r"  -> <<"\r">>
      [] esc = "t"  -> <<"\t">>
      [] OTHER      -> <<esc>>

\* the escape table of lex_text: the characters an escape contributes
Escape(ch, esc) ==
    CASE esc = "\\" -> <<"\\">>
      [] esc = "'"  -> <<"'">>
      [] esc = "\"" -> <<"\"">>
      [] esc = "n"  -> <<"\n">>
      [] esc = "r"  -> <<"\r">>
      [] esc = "t"  -> <<"\t">>
      [] OTHER      -> <<ch, esc>>

\* lex_text_loop that reports the end of input after a backslash as
\* UnexpectedEof
RECURSIVE lex_text_loop_eof(_, _, _)
lex_text_loop_eof(quote, out, s) ==
    IF s = <<>> THEN Step(Err("UnterminatedText", <<>>), s)
    ELSE LET ch == Head(s)
             r  == Tail(s)
         IN  IF ch = quote THEN Step(Ok("Text", out), r)
             ELSE IF ch = "\\"
                  THEN IF r = <<>>
                       THEN Step(Err("UnexpectedEof", <<>>), r)
                       ELSE lex_text_loop_eof(quote, out \o Escape(ch, Head(r)),
                                              Tail(r))
                  ELSE lex_text_loop_eof(quote, Append(out, ch), r)

RECURSIVE lex_text_loop(_, _, _)
lex_text_loop(quote, out, s) ==
    IF s = <<>> THEN Step(Err("UnterminatedText", <<>>), s)
    ELSE LET ch == Head(s)
             r  == Tail(s)
         IN  IF ch = quote THEN Step(Ok("Text", out), r)
             ELSE IF ch = "\\"
                  THEN IF r = <<>>
                       THEN Step(Err("UnterminatedText", <<>>), r)
                       ELSE lex_text_loop(quote, out \o Escape(ch, Head(r)),
                                          Tail(r))
                  ELSE lex_text_loop(quote, Append(out, ch), r)

lex_text(quote, s) == lex_text_loop(quote, <<>>, s)

\* ------------------------------------------------------------------------
\* Lexer::lex_num
\* ------------------------------------------------------------------------
\* i64::MAX = 9223372036854775807, as its decimal digits
I64MaxDigits ==
    <<"9","2","2","3","3","7","2","0","3","6","8","5","4","7","7","5","8","0","7">>

DigitVal(ch) == (CHOOSE i \in 1..Len(DigitSeq) : DigitSeq[i] = ch) - 1

RECURSIVE StripLeadingZeros(_)
StripLeadingZeros(ds) ==
    IF Len(ds) > 1 /\ Head(ds) = "0" THEN StripLeadingZeros(Tail(ds)) ELSE ds

RECURSIVE StripTrailingZeros(_)
StripTrailingZeros(ds) ==
    IF Len(ds) > 1 /\ ds[Len(ds)] = "0"
    THEN StripTrailingZeros(SubSeq(ds, 1, Len(ds) - 1))
    ELSE ds

\* a <= b for two digit strings of the same length
RECURSIVE DigitsLeq(_, _)
DigitsLeq(a, b) ==
    IF a = <<>> THEN TRUE
    ELSE IF DigitVal(Head(a)) < DigitVal(Head(b)) THEN TRUE
    ELSE IF DigitVal(Head(a)) > DigitVal(Head(b)) THEN FALSE
    ELSE DigitsLeq(Tail(a), Tail(b))

\* the value of a digit string fits in an i64
FitsI64(ds) ==
    LET c == StripLeadingZeros(ds)
    IN  \/ Len(c) < Len(I64MaxDigits)
        \/ Len(c) = Len(I64MaxDigits) /\ DigitsLeq(c, I64MaxDigits)

\* str::parse::<i64> of a literal collected by lex_num (digits only): the
\* value, written without leading zeros, or an error when a character is
\* not a digit, the text is empty or the value overflows
ParseI64(out) ==
    IF out # <<>> /\ (\A i \in 1..Len(out) : is_digit(out[i])) /\ FitsI64(out)
    THEN Ok("Int", StripLeadingZeros(out))
    ELSE Err("InvalidNum", out)

DotPos(out) == CHOOSE i \in 1..Len(out) : out[i] = "."

\* str::parse::<f64> of a literal collected by lex_num: the decimal value as
\* integer part, '.', fraction, without leading and trailing zeros (binary
\* rounding of the fraction is not represented)
ParseF64(out) ==
    IF \E i \in 1..Len(out) : out[i] = "."
    THEN LET ip == SubSeq(out, 1, DotPos(out) - 1)
             fp == SubSeq(out, DotPos(out) + 1, Len(out))
         IN  IF /\ \A i \in 1..Len(ip) : is_digit(ip[i])
                /\ \A i \in 1..Len(fp) : is_digit(fp[i])
                /\ Len(ip) + Len(fp) > 0
             THEN Ok("Float",
                     StripLeadingZeros(IF ip = <<>> THEN <<"0">> ELSE ip)
                     \o <<".">>
                     \o StripTrailingZeros(IF fp = <<>> THEN <<"0">> ELSE fp))
             ELSE Err("InvalidNum", out)
    ELSE IF out # <<>> /\ (\A i \in 1..Len(out) : is_digit(out[i]))
         THEN Ok("Float", StripLeadingZeros(out) \o <<".", "0">>)
         ELSE Err("InvalidNum", out)

\* lex_num_loop that takes every '.' into the literal
RECURSIVE lex_num_loop_dots(_, _, _)
lex_num_loop_dots(out, float, s) ==
    IF s = <<>> THEN [out |-> out, float |-> float, src |-> s]
    ELSE IF is_digit(Head(s))
         THEN lex_num_loop_dots(Append(out, Head(s)), float, Tail(s))
    ELSE IF Head(s) = "."
         THEN lex_num_loop_dots(Append(out, Head(s)), TRUE, Tail(s))
    ELSE [out |-> out, float |-> float, src |-> s]

\* the scanning loop of lex_num
RECURSIVE lex_num_loop(_, _, _)
lex_num_loop(out, float, s) ==
    IF s = <<>> THEN [out |-> out, float |-> float, src |-> s]
    ELSE IF is_digit(Head(s))
         THEN lex_num_loop(Append(out, Head(s)), float, Tail(s))
    ELSE IF Head(s) = "." /\ ~float
         THEN lex_num_loop(Append(out, Head(s)), TRUE, Tail(s))
    ELSE [out |-> out, float |-> float, src |-> s]

lex_num(start, s) ==
    LET l == lex_num_loop(<<start>>, FALSE, s)
    IN  IF l.out = <<>> THEN Step(Err("InvalidNum", l.out), l.src)
        ELSE IF l.float
             THEN Step(ParseF64(IF l.out[Len(l.out)] = "."
                                THEN Append(l.out, "0") ELSE l.out), l.src)
             ELSE Step(ParseI64(l.out), l.src)

\* ------------------------------------------------------------------------
\* Lexer::lex_keyword
\* ------------------------------------------------------------------------
\* the keyword table of lex_keyword: up is the text matched against the
\* table, out the word as written
keyword_match(up, out) ==
    CASE up = <<"N","U","L","L">> -> Tok("Null", <<>>)
      [] up = <<"T","R","U","E">> -> Tok("Bool", <<"true">>)
      [] up = <<"F","A","L","S","E">> -> Tok("Bool", <<"false">>)
      [] up = <<"B","O","O","L">> -> Tok("BoolType", <<>>)
      [] up = <<"B","O","O","L","E","A","N">> -> Tok("BoolType", <<>>)
      [] up = <<"I","N","T">> -> Tok("IntType", <<>>)
      [] up = <<"I","N","T","E","G","E","R">> -> Tok("IntType", <<>>)
      [] up = <<"F","L","O","A","T">> -> Tok("FloatType", <<>>)
      [] up = <<"D","O","U","B","L","E">> -> Tok("FloatType", <<>>)
      [] up = <<"T","E","X","T">> -> Tok("TextType", <<>>)
      [] up = <<"S","T","R","I","N","G">> -> Tok("TextType", <<>>)
      [] up = <<"V","A","R","C","H","A","R">> -> Tok("TextType", <<>>)
      [] up = <<"C","R","E","A","T","E">> -> Tok("Create", <<>>)
      [] up = <<"T","A","B","L","E">> -> Tok("Table", <<>>)
      [] up = <<"I","N","S","E","R","T">> -> Tok("Insert", <<>>)
      [] up = <<"I","N","T","O">> -> Tok("Into", <<>>)
      [] up = <<"V","A","L","U","E","S">> -> Tok("Values", <<>>)
      [] up = <<"S","E","L","E","C","T">> -> Tok("Select", <<>>)
      [] up = <<"F","R","O","M">> -> Tok("From", <<>>)
      [] up = <<"U","P","D","A","T","E">> -> Tok("Update", <<>>)
      [] up = <<"S","E","T">> -> Tok("Set", <<>>)
      [] up = <<"A","L","T","E","R">> -> Tok("Alter", <<>>)
      [] up = <<"D","E","L","E","T","E">> -> Tok("Delete", <<>>)
      [] up = <<"D","R","O","P">> -> Tok("Drop", <<>>)
      [] up = <<"U","N","I","O","N">> -> Tok("Union", <<>>)
      [] up = <<"W","H","E","R","E">> -> Tok("Where", <<>>)
      [] up = <<"O","R","D","E","R">> -> Tok("Order", <<>>)
      [] up = <<"B","Y">> -> Tok("By", <<>>)
      [] up = <<"A","S","C">> -> Tok("Asc", <<>>)
      [] up = <<"D","E","S","C">> -> Tok("Desc", <<>>)
      [] up = <<"L","I","M","I","T">> -> Tok("Limit", <<>>)
      [] up = <<"D","I","S","T","I","N","C","T">> -> Tok("Distinct", <<>>)
      [] up = <<"N","O","T">> -> Tok("Not", <<>>)
      [] up = <<"A","N","D">> -> Tok("And", <<>>)
      [] up = <<"O","R">> -> Tok("Or", <<>>)
      [] up = <<"I","N">> -> Tok("In", <<>>)
      [] up = <<"L","I","K","E">> -> Tok("Like", <<>>)
      [] up = <<"B","E","T","W","E","E","N">> -> Tok("Between", <<>>)
      [] up = <<"I","S">> -> Tok("Is", <<>>)
      [] OTHER -> Tok("Ident", out)

RECURSIVE lex_keyword_loop(_, _)
lex_keyword_loop(out, s) ==
    IF s # <<>> /\ (is_letter(Head(s)) \/ is_digit(Head(s)))
    THEN lex_keyword_loop(Append(out, Head(s)), Tail(s))
    ELSE [out |-> out, src |-> s]

\* lex_keyword that matches the table without upper-casing the word
lex_keyword_exact(start, s) ==
    LET l == lex_keyword_loop(<<start>>, s)
        t == keyword_match(l.out, l.out)
    IN  Step(Ok(t.kind, t.val), l.src)

lex_keyword(start, s) ==
    LET l == lex_keyword_loop(<<start>>, s)
        t == keyword_match(to_uppercase(l.out), l.out)
    IN  Step(Ok(t.kind, t.val), l.src)

\* ------------------------------------------------------------------------
\* Lexer::next
\* ------------------------------------------------------------------------
\* the match on the walked character ch; r is what follows it
lex_match(ch, r) ==
    CASE ch = "." -> Step(Ok("Dot", <<>>), r)
      [] ch = "," -> Step(Ok("Comma", <<>>), r)
      [] ch = ";" -> Step(Ok("Semicolon", <<>>), r)
      [] ch = "(" -> Step(Ok("LParen", <<>>), r)
      [] ch = ")" -> Step(Ok("RParen", <<>>), r)
      [] ch = "=" -> Step(Ok("Eq", <<>>), r)
      [] ch = ">" -> IF r # <<>> /\ Head(r) = "="
                     THEN Step(Ok("Ge", <<>>), Tail(r))
                     ELSE Step(Ok("Gt", <<>>), r)
      [] ch = "<" -> IF r # <<>> /\ Head(r) = "="
                     THEN Step(Ok("Le", <<>>), Tail(r))
                     ELSE Step(Ok("Lt", <<>>), r)
      [] ch = "+" -> Step(Ok("Add", <<>>), r)
      [] ch = "-" -> Step(Ok("Sub", <<>>), r)
      [] ch = "*" -> Step(Ok("Mul", <<>>), r)
      [] ch = "/" -> Step(Ok("Div", <<>>), r)
      [] ch \in {"'", "\""} -> lex_text(ch, r)
      [] OTHER -> IF is_digit(ch) THEN lex_num(ch, r)
                  ELSE IF is_letter(ch) THEN lex_keyword(ch, r)
                  ELSE Step(Err("InvalidToken", <<ch>>), r)

\* Lexer::next that returns the end marker after a comment instead of
\* lexing on
LexerNext_CommentEof(s) ==
    LET s1 == skip_ws(s)
    IN  IF s1 = <<>> THEN Step(Ok("Eof", <<>>), s1)
        ELSE IF LexPeek(s1, 2) = <<"-", "-">>
             THEN Step(Ok("Eof", <<>>), skip_ws(skip_comment(Tail(Tail(s1)))))
        ELSE lex_match(Head(s1), Tail(s1))

RECURSIVE LexerNext(_)
LexerNext(s) ==
    LET s1 == skip_ws(s)
    IN  IF s1 = <<>> THEN Step(Ok("Eof", <<>>), s1)
        ELSE IF LexPeek(s1, 2) = <<"-", "-">>
             THEN LexerNext(skip_ws(skip_comment(Tail(Tail(s1)))))
        ELSE lex_match(Head(s1), Tail(s1))

\* ------------------------------------------------------------------------
\* Parser (src/query/parser.rs)
\* ------------------------------------------------------------------------
\* parser.rs names token variants that lexer.rs spells differently: the
\* operators OpEq .. OpDiv are the lexer's Eq .. Div.  Its keyword variants
\* If, Exists, Truncate, Restrict, Cascade, Column, Rename, To and Add (the
\* keyword ADD) have no entry in the keyword table of lex_keyword, so the
\* lexer never produces them.  LexKind gives, for a variant named in
\* parser.rs, the kind of the lexer token it stands for.
LexKind(name) ==
    CASE name = "OpEq"  -> "Eq"
      [] name = "OpGt"  -> "Gt"
      [] name = "OpLt"  -> "Lt"
      [] name = "OpGe"  -> "Ge"
      [] name = "OpLe"  -> "Le"
      [] name = "OpAdd" -> "Add"
      [] name = "OpSub" -> "Sub"
      [] name = "OpMul" -> "Mul"
      [] name = "OpDiv" -> "Div"
      [] name \in { "If", "Exists", "Truncate", "Restrict", "Cascade",
                    "Column", "Rename", "To", "Add" } -> "Unlexed"
      [] OTHER -> name

NoTok == Tok("None", <<>>)

NoErr == [kind |-> "None", expected |-> "", found |-> NoTok, val |-> <<>>]

\* a QueryErr raised by the lexer, as the parser passes it on
LexErr(res) ==
    [kind |-> res.kind, expected |-> "", found |-> NoTok, val |-> res.val]

\* QueryErr::UnexpectedToken { expected, found }: found is kept as the token
\* whose debug rendering the error carries
UnexpectedToken(expected, found) ==
    [kind |-> "UnexpectedToken", expected |-> expected, found |-> found,
     val |-> <<>>]

\* struct Parser { lexer, curr, peek }
Psr(s, curr, peek) == [src |-> s, curr |-> curr, peek |-> peek]

\* the outcome of a parser operation: st is "ok", "err" or "panic", val the
\* value of an Ok, err the error of an Err, p the parser afterwards
POk(val, p) == [st |-> "ok", val |-> val, err |-> NoErr, p |-> p]

PErr(err, p) == [st |-> "err", val |-> <<>>, err |-> err, p |-> p]

PPanic(p) == [st |-> "panic", val |-> <<>>, err |-> NoErr, p |-> p]

\* Each fallible call of the parser is followed by `?`: the operator named
\* f_k takes the result of the k-th such call of f, returns it as it is when
\* it is an Err (or a panic), and goes on with the rest of f when it is Ok.

\* Parser::new, after the second lexer.next()?
ParserNew_2(a, b) ==
    IF ~b.res.ok THEN PErr(LexErr(b.res), Psr(b.src, NoTok, NoTok))
    ELSE POk(<<>>, Psr(b.src, Tok(a.res.kind, a.res.val),
                              Tok(b.res.kind, b.res.val)))

\* Parser::new, after the first lexer.next()?
ParserNew_1(a) ==
    IF ~a.res.ok THEN PErr(LexErr(a.res), Psr(a.src, NoTok, NoTok))
    ELSE ParserNew_2(a, LexerNext(a.src))

\* Parser::new
ParserNew(s) == ParserNew_1(LexerNext(s))

\* Parser::precedence that ranks + - above * /
precedence_swapped(token) ==
    CASE token.kind = "Or" -> 1
      [] token.kind = "And" -> 2
      [] token.kind = LexKind("OpEq") -> 3
      [] token.kind \in { LexKind("OpGt"), LexKind("OpLt"), LexKind("OpGe"),
                          LexKind("OpLe") } -> 4
      [] token.kind \in { LexKind("OpAdd"), LexKind("OpSub") } -> 6
      [] token.kind \in { LexKind("OpMul"), LexKind("OpDiv") } -> 5
      [] token.kind = "LParen" -> 7
      [] OTHER -> 0

\* Parser::precedence
precedence(token) ==
    CASE token.kind = "Or" -> 1
      [] token.kind = "And" -> 2
      [] token.kind = LexKind("OpEq") -> 3
      [] token.kind \in { LexKind("OpGt"), LexKind("OpLt"), LexKind("OpGe"),
                          LexKind("OpLe") } -> 4
      [] token.kind \in { LexKind("OpAdd"), LexKind("OpSub") } -> 5
      [] token.kind \in { LexKind("OpMul"), LexKind("OpDiv") } -> 6
      [] token.kind = "LParen" -> 7
      [] OTHER -> 0

\* Parser::next that puts the new token into curr and leaves peek
ParserNext_1_curr(p, a) ==
    IF ~a.res.ok THEN PErr(LexErr(a.res), [p EXCEPT !.src = a.src])
    ELSE POk(p.curr, Psr(a.src, Tok(a.res.kind, a.res.val), p.peek))

\* Parser::next, after lexer.next()?: shift peek into curr and return the
\* old curr
ParserNext_1(p, a) ==
    IF ~a.res.ok THEN PErr(LexErr(a.res), [p EXCEPT !.src = a.src])
    ELSE POk(p.curr, Psr(a.src, p.peek, Tok(a.res.kind, a.res.val)))

\* Parser::next
ParserNext(p) == ParserNext_1(p, LexerNext(p.src))

RECURSIVE expect(_, _)
RECURSIVE expect_1(_, _)

\* Parser::expect
expect(p, tokens) ==
    IF tokens = <<>> THEN POk(<<>>, p)
    ELSE IF p.curr.kind = LexKind(Head(tokens))
         THEN expect_1(ParserNext(p), tokens)
         ELSE PErr(UnexpectedToken(Head(tokens), p.curr), p)

\* Parser::expect, after self.next()?
expect_1(n, tokens) == IF n.st # "ok" THEN n ELSE expect(n.p, Tail(tokens))

\* Parser::maybe, after self.expect(tokens)?
maybe_1(e) == IF e.st # "ok" THEN e ELSE POk(TRUE, e.p)

\* Parser::maybe that looks at the lookahead token
maybe_peek(p, tokens) ==
    IF tokens = <<>> THEN POk(TRUE, p)
    ELSE IF p.peek.kind # LexKind(tokens[1]) THEN POk(FALSE, p)
    ELSE maybe_1(expect(p, tokens))

\* Parser::maybe
maybe(p, tokens) ==
    IF tokens = <<>> THEN POk(TRUE, p)
    ELSE IF p.curr.kind # LexKind(tokens[1]) THEN POk(FALSE, p)
    ELSE maybe_1(expect(p, tokens))

\* Parser::consume_ident, after self.next()?
consume_ident_1(n) ==
    IF n.st # "ok" THEN n
    ELSE IF n.val.kind = "Ident" THEN POk(n.val.val, n.p)
    ELSE PErr(UnexpectedToken("identifier", n.val), n.p)

\* Parser::consume_ident
consume_ident(p) == consume_ident_1(ParserNext(p))

\* Parser::consume_type that names FloatType "DOUBLE"
consume_type_1_double(n) ==
    IF n.st # "ok" THEN n
    ELSE CASE n.val.kind = "BoolType"  -> POk("BOOLEAN", n.p)
           [] n.val.kind = "IntType"   -> POk("INTEGER", n.p)
           [] n.val.kind = "FloatType" -> POk("DOUBLE", n.p)
           [] n.val.kind = "TextType"  -> POk("TEXT", n.p)
           [] OTHER -> PErr(UnexpectedToken("type", n.val), n.p)

\* Parser::consume_type, after self.next()?
consume_type_1(n) ==
    IF n.st # "ok" THEN n
    ELSE CASE n.val.kind = "BoolType"  -> POk("BOOLEAN", n.p)
           [] n.val.kind = "IntType"   -> POk("INTEGER", n.p)
           [] n.val.kind = "FloatType" -> POk("FLOAT", n.p)
           [] n.val.kind = "TextType"  -> POk("TEXT", n.p)
           [] OTHER -> PErr(UnexpectedToken("type", n.val), n.p)

\* Parser::consume_type
consume_type(p) == consume_type_1(ParserNext(p))

\* enum Expr: e is the variant; a literal or identifier carries val, Unary
\* has args = <<right>>, Binary has args = <<left, right>>; op is the kind
\* of the operator token
Leaf(e, val) == [e |-> e, val |-> val, op |-> "", args |-> <<>>]

Unary(op, right) == [e |-> "Unary", val |-> <<>>, op |-> op, args |-> <<right>>]

Binary(op, left, right) ==
    [e |-> "Binary", val |-> <<>>, op |-> op, args |-> <<left, right>>]

RECURSIVE parse_expr(_, _)
RECURSIVE parse_expr_1(_, _)
RECURSIVE parse_expr_loop(_, _, _)
RECURSIVE parse_expr_loop_1(_, _)
RECURSIVE parse_unary(_)
RECURSIVE parse_unary_1(_)
RECURSIVE parse_unary_2(_, _)
RECURSIVE parse_group(_)
RECURSIVE parse_group_1(_)
RECURSIVE parse_group_2(_, _)
RECURSIVE parse_binary(_, _)
RECURSIVE parse_binary_1(_, _)
RECURSIVE parse_binary_2(_, _, _)

\* Parser::parse_unary
parse_unary(p) == parse_unary_1(ParserNext(p))

\* Parser::parse_unary, after self.next()?
parse_unary_1(n) ==
    IF n.st # "ok" THEN n
    ELSE CASE n.val.kind \in { "Null", "Bool", "Int", "Float", "Text",
                               "Ident" } ->
                POk(Leaf(n.val.kind, n.val.val), n.p)
           [] n.val.kind \in { "Not", LexKind("OpSub") } ->
                parse_unary_2(n.val.kind, parse_expr(n.p, 7))
           [] n.val.kind = "LParen" -> parse_group(n.p)
           [] OTHER ->
                PErr(UnexpectedToken("expression (literal, identifier, or '(')",
                                     n.val), n.p)

\* Parser::parse_unary, after self.parse_expr(7)?
parse_unary_2(op, r) ==
    IF r.st # "ok" THEN r ELSE POk(Unary(op, r.val), r.p)

\* Parser::parse_group
parse_group(p) == parse_group_1(parse_expr(p, 0))

\* Parser::parse_group, after self.parse_expr(0)?
parse_group_1(r) ==
    IF r.st # "ok" THEN r ELSE parse_group_2(r, expect(r.p, <<"RParen">>))

\* Parser::parse_group, after self.expect(&[Token::RParen])?
parse_group_2(r, e) == IF e.st # "ok" THEN e ELSE POk(r.val, e.p)

\* Parser::parse_binary
parse_binary(p, left) == parse_binary_1(ParserNext(p), left)

\* Parser::parse_binary with the right operand parsed one binding power
\* lower, so that an operator of the same power is taken by the right operand
parse_binary_1_right(n, left) ==
    IF n.st # "ok" THEN n
    ELSE IF precedence(n.val) > 0
         THEN parse_binary_2(n.val.kind, left,
                             parse_expr(n.p, precedence(n.val) - 1))
         ELSE PErr(UnexpectedToken("binary operator", n.val), n.p)

\* Parser::parse_binary, after self.next()?
parse_binary_1(n, left) ==
    IF n.st # "ok" THEN n
    ELSE IF precedence(n.val) > 0
         THEN parse_binary_2(n.val.kind, left,
                             parse_expr(n.p, precedence(n.val)))
         ELSE PErr(UnexpectedToken("binary operator", n.val), n.p)

\* Parser::parse_binary, after self.parse_expr(prec)?
parse_binary_2(op, left, r) ==
    IF r.st # "ok" THEN r ELSE POk(Binary(op, left, r.val), r.p)

\* the while loop of Parser::parse_expr
parse_expr_loop(p, prec, left) ==
    IF prec < precedence(p.curr)
    THEN parse_expr_loop_1(parse_binary(p, left), prec)
    ELSE POk(left, p)

\* the while loop of Parser::parse_expr, after self.parse_binary(left)?
parse_expr_loop_1(b, prec) ==
    IF b.st # "ok" THEN b ELSE parse_expr_loop(b.p, prec, b.val)

\* Parser::parse_expr
parse_expr(p, prec) == parse_expr_1(parse_unary(p), prec)

\* Parser::parse_expr, after self.parse_unary()?
parse_expr_1(u, prec) ==
    IF u.st # "ok" THEN u ELSE parse_expr_loop(u.p, prec, u.val)

\* --- lists ---
RECURSIVE parse_list_clause(_, _, _)
RECURSIVE parse_list_clause_1(_, _, _)
RECURSIVE parse_list_clause_2(_, _)
RECURSIVE parse_list_clause_3(_, _)
RECURSIVE parse_list_loop(_, _, _)
RECURSIVE parse_list_loop_1(_, _, _)
RECURSIVE parse_list_loop_2(_, _, _, _)
RECURSIVE parse_item(_, _)

\* a pair built from two results, the second of which may have failed
Pair(n, t) == IF t.st # "ok" THEN t ELSE POk(<<n.val, t.val>>, t.p)

\* the column definition closure of parse_create, after consume_ident()?
parse_def_1(n) == IF n.st # "ok" THEN n ELSE Pair(n, consume_type(n.p))

\* the assignment closure of parse_update, after expect(&[Token::OpEq])?
parse_assign_2(n, e) == IF e.st # "ok" THEN e ELSE Pair(n, parse_expr(e.p, 0))

\* the assignment closure of parse_update, after consume_ident()?
parse_assign_1(n) ==
    IF n.st # "ok" THEN n ELSE parse_assign_2(n, expect(n.p, <<"OpEq">>))

\* the parse_fn closures handed to parse_list_clause, by name:
\*   "ident"  |p| p.consume_ident()                       (parse_insert)
\*   "def"    column name and type                        (parse_create)
\*   "expr"   |p| p.parse_expr(0)           (parse_select, value tuples)
\*   "tuple"  |p| p.parse_list_clause(true, expr)  (parse_insert_values)
\*   "assign" column = expression                         (parse_update)
parse_item(p, item) ==
    CASE item = "ident" -> consume_ident(p)
      [] item = "def" -> parse_def_1(consume_ident(p))
      [] item = "expr" -> parse_expr(p, 0)
      [] item = "tuple" -> parse_list_clause(p, TRUE, "expr")
      [] item = "assign" -> parse_assign_1(consume_ident(p))

\* the loop of Parser::parse_list_clause
parse_list_loop(p, item, items) ==
    parse_list_loop_1(parse_item(p, item), item, items)

\* the loop of Parser::parse_list_clause, after parse_fn(self)?
parse_list_loop_1(i, item, items) ==
    IF i.st # "ok" THEN i
    ELSE parse_list_loop_2(i, maybe(i.p, <<"Comma">>), item, items)

\* the loop of Parser::parse_list_clause that puts each item in front
parse_list_loop_2_front(i, m, item, items) ==
    IF m.st # "ok" THEN m
    ELSE IF m.val THEN parse_list_loop(m.p, item, <<i.val>> \o items)
    ELSE POk(<<i.val>> \o items, m.p)

\* the loop of Parser::parse_list_clause, after self.maybe(&[Token::Comma])?
parse_list_loop_2(i, m, item, items) ==
    IF m.st # "ok" THEN m
    ELSE IF m.val THEN parse_list_loop(m.p, item, Append(items, i.val))
    ELSE POk(Append(items, i.val), m.p)

\* Parser::parse_list_clause
parse_list_clause(p, with_parens, item) ==
    parse_list_clause_1(IF with_parens THEN expect(p, <<"LParen">>)
                        ELSE POk(<<>>, p), with_parens, item)

\* Parser::parse_list_clause, after the opening parenthesis
parse_list_clause_1(o, with_parens, item) ==
    IF o.st # "ok" THEN o
    ELSE parse_list_clause_2(parse_list_loop(o.p, item, <<>>), with_parens)

\* Parser::parse_list_clause, after the loop
parse_list_clause_2(l, with_parens) ==
    IF l.st # "ok" THEN l
    ELSE IF with_parens
         THEN parse_list_clause_3(l, expect(l.p, <<"RParen">>))
         ELSE l

\* Parser::parse_list_clause, after self.expect(&[Token::RParen])?
parse_list_clause_3(l, c) == IF c.st # "ok" THEN c ELSE POk(l.val, c.p)

\* --- statements ---
\* Parser::parse_create, after the column list
parse_create_4(m, t, c) ==
    IF c.st # "ok" THEN c
    ELSE POk([stmt |-> "Create", table |-> t.val, columns |-> c.val,
              if_not_exists |-> m.val], c.p)

\* Parser::parse_create, after self.consume_ident()?
parse_create_3(m, t) ==
    IF t.st # "ok" THEN t
    ELSE parse_create_4(m, t, parse_list_clause(t.p, TRUE, "def"))

\* Parser::parse_create, after self.maybe(&[If, Not, Exists])?
parse_create_2(m) ==
    IF m.st # "ok" THEN m ELSE parse_create_3(m, consume_ident(m.p))

\* Parser::parse_create, after self.expect(&[Create, Table])?
parse_create_1(e) ==
    IF e.st # "ok" THEN e
    ELSE parse_create_2(maybe(e.p, <<"If", "Not", "Exists">>))

\* Parser::parse_create
parse_create(p) == parse_create_1(expect(p, <<"Create", "Table">>))

\* Parser::parse_insert_values, after the list of value tuples
parse_insert_values_1(v, table, columns) ==
    IF v.st # "ok" THEN v
    ELSE POk([stmt |-> "InsertValues", table |-> table, columns |-> columns,
              values |-> v.val], v.p)

\* Parser::parse_insert_values
parse_insert_values(p, table, columns) ==
    parse_insert_values_1(parse_list_clause(p, FALSE, "tuple"), table, columns)

\* Parser::parse_insert, after self.maybe(&[Token::Select])?;
\* unimplemented!() panics
parse_insert_5(ms) ==
    IF ms.st # "ok" THEN ms
    ELSE IF ms.val THEN PPanic(ms.p)
    ELSE PErr(UnexpectedToken("VALUES or SELECT", ms.p.curr), ms.p)

\* Parser::parse_insert, after self.maybe(&[Token::Values])?
parse_insert_4(t, c, mv) ==
    IF mv.st # "ok" THEN mv
    ELSE IF mv.val THEN parse_insert_values(mv.p, t.val, c.val)
    ELSE parse_insert_5(maybe(mv.p, <<"Select">>))

\* Parser::parse_insert, after the optional column list
parse_insert_3(t, c) ==
    IF c.st # "ok" THEN c ELSE parse_insert_4(t, c, maybe(c.p, <<"Values">>))

\* Parser::parse_insert, after self.consume_ident()?
parse_insert_2(t) ==
    IF t.st # "ok" THEN t
    ELSE parse_insert_3(t, IF t.p.curr = Tok("LParen", <<>>)
                           THEN parse_list_clause(t.p, TRUE, "ident")
                           ELSE POk(<<>>, t.p))

\* Parser::parse_insert, after self.expect(&[Insert, Into])?
parse_insert_1(e) == IF e.st # "ok" THEN e ELSE parse_insert_2(consume_ident(e.p))

\* Parser::parse_insert
parse_insert(p) == parse_insert_1(expect(p, <<"Insert", "Into">>))

\* Parser::parse_select, after self.consume_ident()?
parse_select_6(d, c, t) ==
    IF t.st # "ok" THEN t
    ELSE POk([stmt |-> "Select", table |-> t.val, distinct |-> d.val,
              columns |-> c.val, where_clause |-> <<>>, group_by |-> <<>>,
              having |-> <<>>, order_by |-> <<>>, limit |-> <<>>], t.p)

\* Parser::parse_select, after self.expect(&[Token::From])?
parse_select_5(d, c, f) ==
    IF f.st # "ok" THEN f ELSE parse_select_6(d, c, consume_ident(f.p))

\* Parser::parse_select, after the column list
parse_select_4(d, c) ==
    IF c.st # "ok" THEN c ELSE parse_select_5(d, c, expect(c.p, <<"From">>))

\* Parser::parse_select, after self.maybe(&[Token::OpMul])?
parse_select_3(d, m) ==
    IF m.st # "ok" THEN m
    ELSE parse_select_4(d, IF ~m.val THEN parse_list_clause(m.p, FALSE, "expr")
                           ELSE POk(<<>>, m.p))

\* Parser::parse_select, after self.maybe(&[Token::Distinct])?
parse_select_2(d) ==
    IF d.st # "ok" THEN d ELSE parse_select_3(d, maybe(d.p, <<"OpMul">>))

\* Parser::parse_select, after self.expect(&[Token::Select])?
parse_select_1(e) ==
    IF e.st # "ok" THEN e ELSE parse_select_2(maybe(e.p, <<"Distinct">>))

\* Parser::parse_select
parse_select(p) == parse_select_1(expect(p, <<"Select">>))

\* Parser::parse_update, after the assignment list
parse_update_4(t, a) ==
    IF a.st # "ok" THEN a
    ELSE POk([stmt |-> "Update", table |-> t.val, assigns |-> a.val,
              where_clause |-> <<>>], a.p)

\* Parser::parse_update, after self.expect(&[Token::Set])?
parse_update_3(t, s) ==
    IF s.st # "ok" THEN s
    ELSE parse_update_4(t, parse_list_clause(s.p, FALSE, "assign"))

\* Parser::parse_update, after self.consume_ident()?
parse_update_2(t) ==
    IF t.st # "ok" THEN t ELSE parse_update_3(t, expect(t.p, <<"Set">>))

\* Parser::parse_update, after self.expect(&[Token::Update])?
parse_update_1(e) == IF e.st # "ok" THEN e ELSE parse_update_2(consume_ident(e.p))

\* Parser::parse_update
parse_update(p) == parse_update_1(expect(p, <<"Update">>))

\* Parser::parse_alter_add, after self.consume_type()?
parse_alter_add_2(table, n, t) ==
    IF t.st # "ok" THEN t
    ELSE POk([stmt |-> "AlterAdd", table |-> table,
              column |-> <<n.val, t.val>>], t.p)

\* Parser::parse_alter_add, after self.consume_ident()?
parse_alter_add_1(table, n) ==
    IF n.st # "ok" THEN n ELSE parse_alter_add_2(table, n, consume_type(n.p))

\* Parser::parse_alter_add
parse_alter_add(p, table) == parse_alter_add_1(table, consume_ident(p))

\* Parser::parse_alter_drop, after self.consume_ident()?
parse_alter_drop_1(table, n) ==
    IF n.st # "ok" THEN n
    ELSE POk([stmt |-> "AlterDrop", table |-> table, column |-> n.val], n.p)

\* Parser::parse_alter_drop
parse_alter_drop(p, table) == parse_alter_drop_1(table, consume_ident(p))

\* Parser::parse_alter_rename, after self.consume_ident()?
parse_alter_rename_1(table, n) ==
    IF n.st # "ok" THEN n
    ELSE POk([stmt |-> "AlterRename", table |-> table, new_name |-> n.val], n.p)

\* Parser::parse_alter_rename
parse_alter_rename(p, table) == parse_alter_rename_1(table, consume_ident(p))

\* Parser::parse_alter, after self.maybe(&[Rename, To])?
parse_alter_5(t, r) ==
    IF r.st # "ok" THEN r
    ELSE IF r.val THEN parse_alter_rename(r.p, t.val)
    ELSE PErr(UnexpectedToken("ADD, DROP, or RENAME", r.p.curr), r.p)

\* Parser::parse_alter, after self.maybe(&[Drop, Column])?
parse_alter_4(t, d) ==
    IF d.st # "ok" THEN d
    ELSE IF d.val THEN parse_alter_drop(d.p, t.val)
    ELSE parse_alter_5(t, maybe(d.p, <<"Rename", "To">>))

\* Parser::parse_alter, after self.maybe(&[Add, Column])?
parse_alter_3(t, a) ==
    IF a.st # "ok" THEN a
    ELSE IF a.val THEN parse_alter_add(a.p, t.val)
    ELSE parse_alter_4(t, maybe(a.p, <<"Drop", "Column">>))

\* Parser::parse_alter, after self.consume_ident()?
parse_alter_2(t) ==
    IF t.st # "ok" THEN t ELSE parse_alter_3(t, maybe(t.p, <<"Add", "Column">>))

\* Parser::parse_alter, after self.expect(&[Alter, Table])?
parse_alter_1(e) == IF e.st # "ok" THEN e ELSE parse_alter_2(consume_ident(e.p))

\* Parser::parse_alter
parse_alter(p) == parse_alter_1(expect(p, <<"Alter", "Table">>))

\* Parser::parse_delete, after self.consume_ident()?
parse_delete_2(t) ==
    IF t.st # "ok" THEN t
    ELSE POk([stmt |-> "Delete", table |-> t.val, where_clause |-> <<>>], t.p)

\* Parser::parse_delete, after self.expect(&[Delete, From])?
parse_delete_1(e) == IF e.st # "ok" THEN e ELSE parse_delete_2(consume_ident(e.p))

\* Parser::parse_delete
parse_delete(p) == parse_delete_1(expect(p, <<"Delete", "From">>))

\* Parser::parse_truncate, after self.consume_ident()?
parse_truncate_2(t) ==
    IF t.st # "ok" THEN t ELSE POk([stmt |-> "Truncate", table |-> t.val], t.p)

\* Parser::parse_truncate, after self.expect(&[Truncate, Table])?
parse_truncate_1(e) ==
    IF e.st # "ok" THEN e ELSE parse_truncate_2(consume_ident(e.p))

\* Parser::parse_truncate
parse_truncate(p) == parse_truncate_1(expect(p, <<"Truncate", "Table">>))

\* Parser::parse_drop, after the RESTRICT / CASCADE choice
parse_drop_5(i, t, c) ==
    IF c.st # "ok" THEN c
    ELSE POk([stmt |-> "Drop", table |-> t.val, if_exists |-> i.val,
              cascade |-> c.val], c.p)

\* Parser::parse_drop, after self.maybe(&[Token::Restrict])?
parse_drop_4(i, t, r) ==
    IF r.st # "ok" THEN r
    ELSE parse_drop_5(i, t, IF r.val THEN POk(FALSE, r.p)
                            ELSE maybe(r.p, <<"Cascade">>))

\* Parser::parse_drop, after self.consume_ident()?
parse_drop_3(i, t) ==
    IF t.st # "ok" THEN t ELSE parse_drop_4(i, t, maybe(t.p, <<"Restrict">>))

\* Parser::parse_drop, after self.maybe(&[If, Exists])?
parse_drop_2(i) == IF i.st # "ok" THEN i ELSE parse_drop_3(i, consume_ident(i.p))

\* Parser::parse_drop, after self.expect(&[Drop, Table])?
parse_drop_1(e) ==
    IF e.st # "ok" THEN e ELSE parse_drop_2(maybe(e.p, <<"If", "Exists">>))

\* Parser::parse_drop
parse_drop(p) == parse_drop_1(expect(p, <<"Drop", "Table">>))

\* Parser::parse_stmt that reports the lookahead token as found
parse_stmt_peek(p) ==
    CASE p.curr.kind = "Create" -> parse_create(p)
      [] p.curr.kind = "Insert" -> parse_insert(p)
      [] p.curr.kind = "Select" -> parse_select(p)
      [] p.curr.kind = "Update" -> parse_update(p)
      [] p.curr.kind = "Alter"  -> parse_alter(p)
      [] p.curr.kind = "Delete" -> parse_delete(p)
      [] p.curr.kind = LexKind("Truncate") -> parse_truncate(p)
      [] p.curr.kind = "Drop"   -> parse_drop(p)
      [] OTHER ->
           PErr(UnexpectedToken("SELECT, INSERT, UPDATE, DELETE, CREATE, DROP",
                                p.peek), p)

\* Parser::parse_stmt
parse_stmt(p) ==
    CASE p.curr.kind = "Create" -> parse_create(p)
      [] p.curr.kind = "Insert" -> parse_insert(p)
      [] p.curr.kind = "Select" -> parse_select(p)
      [] p.curr.kind = "Update" -> parse_update(p)
      [] p.curr.kind = "Alter"  -> parse_alter(p)
      [] p.curr.kind = "Delete" -> parse_delete(p)
      [] p.curr.kind = LexKind("Truncate") -> parse_truncate(p)
      [] p.curr.kind = "Drop"   -> parse_drop(p)
      [] OTHER ->
           PErr(UnexpectedToken("SELECT, INSERT, UPDATE, DELETE, CREATE, DROP",
                                p.curr), p)

RECURSIVE parse_block_loop(_, _, _)
RECURSIVE parse_block_loop_1(_, _, _)
RECURSIVE parse_block_loop_2(_, _, _)

\* the loop of Parser::parse_block that ends at the first `;`
parse_block_loop_stop(p, terms, stmts) ==
    IF \E i \in 1..Len(terms) : LexKind(terms[i]) = p.curr.kind
    THEN POk(stmts, p)
    ELSE IF p.curr = Tok("Semicolon", <<>>)
         THEN POk(stmts, p)
         ELSE parse_block_loop_2(parse_stmt(p), terms, stmts)

\* the loop of Parser::parse_block
parse_block_loop(p, terms, stmts) ==
    IF \E i \in 1..Len(terms) : LexKind(terms[i]) = p.curr.kind
    THEN POk(stmts, p)
    ELSE IF p.curr = Tok("Semicolon", <<>>)
         THEN parse_block_loop_1(ParserNext(p), terms, stmts)
         ELSE parse_block_loop_2(parse_stmt(p), terms, stmts)

\* the loop of Parser::parse_block, after self.next()? on a semicolon
parse_block_loop_1(n, terms, stmts) ==
    IF n.st # "ok" THEN n ELSE parse_block_loop(n.p, terms, stmts)

\* the loop of Parser::parse_block with a statement that must be followed
\* by `;` or by a terminator
parse_block_loop_2_semi(st, terms, stmts) ==
    IF st.st # "ok" THEN st
    ELSE IF \/ st.p.curr = Tok("Semicolon", <<>>)
            \/ \E i \in 1..Len(terms) : LexKind(terms[i]) = st.p.curr.kind
         THEN parse_block_loop(st.p, terms, Append(stmts, st.val))
         ELSE PErr(UnexpectedToken(";", st.p.curr), st.p)

\* the loop of Parser::parse_block, after self.parse_stmt()?
parse_block_loop_2(st, terms, stmts) ==
    IF st.st # "ok" THEN st
    ELSE parse_block_loop(st.p, terms, Append(stmts, st.val))

\* Parser::parse_block
parse_block(p, terms) == parse_block_loop(p, terms, <<>>)

\* Parser::parse
parse(p) == parse_block(p, <<"Eof">>)

\* ------------------------------------------------------------------------
\* Source texts
\* ------------------------------------------------------------------------
\* A source text is kept as the segments it was written from (words,
\* separators, literals); the lexer sees their concatenation.
RECURSIVE Flatten(_)
Flatten(ps) == IF ps = <<>> THEN <<>> ELSE Head(ps) \o Flatten(Tail(ps))

\* all texts of at most n characters over the alphabet A
StrOver(A, n) == UNION { [1..k -> A] : k \in 0..n }

\* longest text over the numeric alphabet
MaxNumLen == 4
\* longest text over the quoted-literal alphabet
MaxTextLen == 5
\* most lexemes in a text of lexemes and separators
MaxPieces == 2
\* calls of Lexer::next that return the end marker
MaxEofCalls == 3

wSELECT == <<"S","E","L","E","C","T">>
wFROM == <<"F","R","O","M">>
wWHERE == <<"W","H","E","R","E">>
wusers == <<"u","s","e","r","s">>
wid == <<"i","d">>

\* --- texts of lexemes separated by white space and comments ---
Lexemes == { wSELECT, <<"*">>, wusers, <<"1">> }

LexemeTok(x) ==
    CASE x = wSELECT  -> Ok("Select", <<>>)
      [] x = <<"*">>  -> Ok("Mul", <<>>)
      [] x = wusers   -> Ok("Ident", wusers)
      [] x = <<"1">>  -> Ok("Int", <<"1">>)

\* separators: white space, a comment closed by a newline, a comment whose
\* text holds a quote and is followed by white space
Seps == { <<" ">>, <<"-","-","c","\n">>, <<"\t","-","-","'","\n"," ">> }
LeadSeps == { <<>>, <<"\n">>, <<"-","-","c","\n">> }
\* what may end the text: nothing, or a comment that runs to end of input
EndSeps == { <<>>, <<"-","-","c">> }

RECURSIVE PiecePrefix(_)
PiecePrefix(k) ==
    IF k = 0 THEN { <<l>> : l \in LeadSeps }
    ELSE { p \o <<x, s>> : p \in PiecePrefix(k - 1), x \in Lexemes, s \in Seps }

PieceInputs ==
    UNION { PiecePrefix(k) : k \in 0..MaxPieces }
    \cup UNION { { p \o <<x, f>> : p \in PiecePrefix(k - 1), x \in Lexemes,
                                   f \in EndSeps } : k \in 1..MaxPieces }

ExampleSelect ==
    << wSELECT, <<" ">>, <<"*">>, <<" ">>, wFROM, <<" ">>, wusers, <<" ">>,
       wWHERE, <<" ">>, wid, <<" ">>, <<"=">>, <<" ">>, <<"1">>, <<";">> >>

\* the comment test of lexer.rs: "SELECT -- comment\nFROM users"
ExampleComment ==
    << wSELECT, <<" ">>, <<"-","-"," ","c","\n">>, wFROM, <<" ">>, wusers >>

\* --- numeric texts ---
NumAlphabet == { "0", "3", "9", "." }

I64MaxPlus1 ==
    <<"9","2","2","3","3","7","2","0","3","6","8","5","4","7","7","5","8","0","8">>

NumInputs ==
    { <<t>> : t \in StrOver(NumAlphabet, MaxNumLen) }
    \cup { <<I64MaxDigits>>, <<I64MaxPlus1>>, <<<<"0">> \o I64MaxPlus1>>,
           <<<<"0", "0">> \o I64MaxDigits>>, <<I64MaxDigits \o <<"0">> >>,
           <<I64MaxPlus1 \o <<".">> >>,
           << <<"1",".","2",".","3">> >> }

\* --- quoted texts ---
TextAlphabet == { "'", "\"", "\\", "n", "q" }

\* every text of at most MaxTextLen characters that opens a quoted literal
TextInputs ==
    { << <<q>> \o t >> : q \in { "'", "\"" },
                         t \in StrOver(TextAlphabet, MaxTextLen - 1) }

\* --- words in every mix of upper and lower case ---
CaseVariants(w) ==
    { [i \in 1..Len(w) |-> IF b[i] THEN ToUpperCh(w[i]) ELSE w[i]] :
        b \in [1..Len(w) -> BOOLEAN] }

BaseWords ==
    { <<"s","e","l","e","c","t">>, <<"o","r">>, <<"i","n","t">>,
      <<"t","r","u","e">>, <<"s","e","l","e","c">>, <<"o","r","_">>,
      <<"_","i","n">>, <<"i","s","2">>, <<"a","b">> }

WordInputs ==
    UNION { { <<v>> : v \in CaseVariants(w) } : w \in BaseWords }
    \cup UNION { { <<v, <<"*">> >> : v \in CaseVariants(w) } : w \in BaseWords }

\* escapes outside the quoted-literal alphabet
EscapeInputs ==
    { << <<q, "\\", c, q>> >> : q \in { "'", "\"" }, c \in { "r", "t", "a", " " } }
    \cup { << <<q, "x", "\\", c, "y", q, "z">> >> :
             q \in { "'", "\"" }, c \in { "r", "t", "a" } }

LexInputs ==
    PieceInputs \cup { ExampleSelect, ExampleComment } \cup NumInputs
    \cup TextInputs \cup EscapeInputs \cup WordInputs

\* --- statements ---
\* most statements in a text of statements
MaxStmts == 3

sp == <<" ">>

\* the words ws with a space between neighbours
RECURSIVE Spaced(_)
Spaced(ws) ==
    IF Len(ws) <= 1 THEN ws ELSE <<Head(ws), sp>> \o Spaced(Tail(ws))

wDROP == <<"D","R","O","P">>
wTABLE == <<"T","A","B","L","E">>
wINSERT == <<"I","N","S","E","R","T">>
wINTO == <<"I","N","T","O">>
wVALUES == <<"V","A","L","U","E","S">>
wUPDATE == <<"U","P","D","A","T","E">>
wSET == <<"S","E","T">>
wDELETE == <<"D","E","L","E","T","E">>
wCREATE == <<"C","R","E","A","T","E">>
wALTER == <<"A","L","T","E","R">>
wNOT == <<"N","O","T">>

\* SELECT a op1 b op2 c FROM t
BinOpLexemes ==
    { <<"O","R">>, <<"A","N","D">>, <<"=">>, <<">">>, <<"<">>, <<">","=">>,
      <<"<","=">>, <<"+">>, <<"-">>, <<"*">>, <<"/">> }

OperandsA == { <<"1">>, wNOT \o <<" ","-"," ","2">> }
OperandsB == { <<"2">>, <<"-"," ","2">>, <<"("," ","1"," ","+"," ","2"," ",")">> }
OperandsC == { <<"3">>, wNOT \o <<" ","y">> }

ExprInputs ==
    { Spaced(<<wSELECT, a, o1, b, o2, c, wFROM, <<"t">> >>) :
        a \in OperandsA, o1 \in BinOpLexemes, b \in OperandsB,
        o2 \in BinOpLexemes, c \in OperandsC }

\* statements with and without a WHERE clause
WhereClause == <<wWHERE, wid, <<"=">>, <<"1">> >>

PlainStmts ==
    { <<wSELECT, <<"*">>, wFROM, <<"t">> >>,
      <<wSELECT, wid, wFROM, <<"t">> >>,
      <<wUPDATE, <<"t">>, wSET, <<"c">>, <<"=">>, <<"1">> >>,
      <<wDELETE, wFROM, <<"t">> >> }

WhereInputs ==
    { Spaced(st \o WhereClause) : st \in PlainStmts }
    \cup { Spaced(st \o WhereClause \o << <<";">> >>) : st \in PlainStmts }

PlainInputs ==
    { Spaced(st) : st \in PlainStmts }
    \cup { Spaced(st \o << <<";">> >>) : st \in PlainStmts }

\* texts of statements separated by ';': complete statements and
\* fragments with a lexical or a grammar error
GoodFrags ==
    { Spaced(<<wDROP, wTABLE, <<"a">> >>),
      Spaced(<<wINSERT, wINTO, <<"t">>, wVALUES, <<"(">>, <<"1">>, <<")">> >>),
      Spaced(<<wINSERT, wINTO, <<"t">>, wSELECT, <<"1">> >>) }

BadFrags ==
    { << <<"$">> >>,
      Spaced(<<wDROP, <<"x">> >>),
      << <<"'","a","b","c">> >> }

Frags == GoodFrags \cup BadFrags

semi == << <<" ">>, <<";">>, <<" ">> >>

RECURSIVE StmtSeqs(_)
StmtSeqs(k) ==
    IF k = 1 THEN Frags
    ELSE { t \o semi \o f : t \in StmtSeqs(k - 1), f \in Frags }

StmtSeqInputs == UNION { StmtSeqs(k) : k \in 1..MaxStmts }

MiscInputs ==
    { Spaced(<<wCREATE, wTABLE, <<"t">>, <<"(">>, <<"a">>, <<"I","N","T">>,
               <<",">>, <<"b">>, <<"T","E","X","T">>, <<")">>, <<";">> >>),
      Spaced(<<wINSERT, wINTO, <<"t">>, <<"(">>, <<"a">>, <<")">>, wSELECT,
               <<"*">>, wFROM, <<"u">> >>),
      Spaced(<<wINSERT, wINTO, <<"t">>, <<"(">>, <<"a">>, <<")">>, wVALUES,
               <<"(">>, <<"1">>, <<")">>, <<",">>, <<"(">>, <<"2">>, <<")">>,
               <<";">> >>),
      Spaced(<<wALTER, wTABLE, <<"t">>, wDROP, <<"c">> >>),
      Spaced(<<wALTER, wTABLE, <<"t">>, <<"A","D","D">>, <<"c">>,
               <<"I","N","T">> >>) }

\* --- a text whose statement starts with a token of any kind ---
wSELEC == <<"S","E","L","E","C">>

\* lexemes that start no statement
OtherLeads ==
    { wSELEC, wWHERE, wTABLE, wFROM, wNOT, wINTO, <<"I","N","T">>,
      <<"N","U","L","L">>, <<"t","r","u","e">>, <<"1">>, <<"1",".","5">>,
      <<"'","x","'">>, <<"(">>, <<")">>, <<",">>, <<"*">>, <<"=">> }

\* the keywords Parser::parse_stmt has a branch for and Lexer::lex_keyword
\* knows
StmtLeads == { wCREATE, wINSERT, wSELECT, wUPDATE, wALTER, wDELETE, wDROP }

\* what comes before the statement: nothing, separators, or a statement
\* with or without its `;`
LeadPrefixes ==
    { <<>>, << <<";">> >>, <<wDROP, wTABLE, <<"a">>, <<";">> >>,
      <<wDROP, wTABLE, <<"a">> >> }

LeadSuffixes == { <<>>, << <<"*">>, wFROM, <<"t">> >> }

LeadInputs ==
    { Spaced(pre \o <<l>> \o suf) :
        pre \in LeadPrefixes, l \in OtherLeads \cup StmtLeads,
        suf \in LeadSuffixes }

\* --- statements separated by runs of `;` ---
\* most statements, `;` and comments in a text of separated statements
MaxItems == 4

SepForms ==
    { <<wDROP, wTABLE, <<"a">> >>, <<wDELETE, wFROM, <<"t">> >>,
      <<wSELECT, <<"*">>, wFROM, <<"u">> >> }

wComment == <<"-","-","c","\n">>

\* the statement forms, each as one item, `;` and a comment
SepItems ==
    { <<Flatten(Spaced(f))>> : f \in SepForms } \cup { << <<";">> >>,
                                                      <<wComment>> }

IsStmtItem(x) == x # <<";">> /\ x # wComment

\* between two statements there is at least one `;`
RECURSIVE Separated(_, _)
Separated(items, open) ==
    IF items = <<>> THEN TRUE
    ELSE IF IsStmtItem(Head(items))
         THEN ~open /\ Separated(Tail(items), TRUE)
         ELSE Separated(Tail(items), open /\ Head(items) # <<";">>)

RECURSIVE ItemSeqs(_)
ItemSeqs(k) ==
    IF k = 0 THEN { <<>> }
    ELSE { t \o i : t \in ItemSeqs(k - 1), i \in SepItems }

SepInputs ==
    { Spaced(t) : t \in { u \in UNION { ItemSeqs(k) : k \in 1..MaxItems } :
                            Separated(u, FALSE) } }

\* --- CREATE TABLE t ( a <word> , b <word> ... ) ---
\* most columns of a CREATE TABLE text
MaxCols == 2

TypeWords ==
    { <<"B","O","O","L">>, <<"B","O","O","L","E","A","N">>, <<"I","N","T">>,
      <<"I","N","T","E","G","E","R">>, <<"F","L","O","A","T">>,
      <<"D","O","U","B","L","E">>, <<"T","E","X","T">>,
      <<"S","T","R","I","N","G">>, <<"V","A","R","C","H","A","R">> }

\* what follows a column name: a type keyword or something else
ColWords == TypeWords \cup { <<"x">> }

ColName(i) == << <<"a", "b", "c", "d">>[i] >>

RECURSIVE ColLists(_)
ColLists(k) ==
    IF k = 1 THEN { <<ColName(1), w>> : w \in ColWords }
    ELSE { t \o << <<",">>, ColName(k), w >> :
             t \in ColLists(k - 1), w \in ColWords }

CreateInputs ==
    { Spaced(<<wCREATE, wTABLE, <<"t">>, <<"(">> >> \o c \o << <<")">> >>) :
        c \in { <<>> } \cup UNION { ColLists(k) : k \in 1..MaxCols } }

\* --- INSERT INTO t [ ( a , b ) ] VALUES ( e , e ) , ( e ) ... ---
\* most value tuples of an INSERT text
MaxTuples == 2

\* the item lists xs with a `,` between neighbours
RECURSIVE CommaJoin(_)
CommaJoin(xs) ==
    IF Len(xs) = 0 THEN <<>>
    ELSE IF Len(xs) = 1 THEN xs[1]
    ELSE xs[1] \o << <<",">> >> \o CommaJoin(Tail(xs))

Parens(items) == << <<"(">> >> \o items \o << <<")">> >>

\* expressions, as their lexemes
eOne == << <<"1">> >>
eText == << <<"'","x","'">> >>
eNeg == << <<"-">>, <<"2">> >>
eSum == << <<"(">>, <<"1">>, <<"+">>, <<"2">>, <<")">> >>

\* value tuples, as their expressions
TupleForms == { <<eOne>>, <<eOne, eText>>, <<eNeg, eSum>> }

RECURSIVE TupleLists(_)
TupleLists(k) ==
    IF k = 1 THEN { <<t>> : t \in TupleForms }
    ELSE { ts \o <<t>> : ts \in TupleLists(k - 1), t \in TupleForms }

\* explicit column lists, as their names
ColOptions == { <<>>, << <<"a">> >>, << <<"a">>, <<"b">> >> }

InsertText(cols, tuples) ==
    Spaced(<<wINSERT, wINTO, <<"t">> >>
           \o (IF cols = <<>> THEN <<>>
               ELSE Parens(CommaJoin([i \in 1..Len(cols) |-> <<cols[i]>>])))
           \o <<wVALUES>>
           \o CommaJoin([i \in 1..Len(tuples) |-> Parens(CommaJoin(tuples[i]))]))

InsertInputs ==
    { InsertText(c, ts) :
        c \in ColOptions, ts \in UNION { TupleLists(k) : k \in 1..MaxTuples } }

\* --- DROP TABLE [IF EXISTS] a [RESTRICT | CASCADE] ---
wIF == <<"I","F">>
wEXISTS == <<"E","X","I","S","T","S">>
wRESTRICT == <<"R","E","S","T","R","I","C","T">>
wCASCADE == <<"C","A","S","C","A","D","E">>

DropText(if_exists, tail) ==
    Spaced(<<wDROP, wTABLE>> \o (IF if_exists THEN <<wIF, wEXISTS>> ELSE <<>>)
           \o << <<"a">> >> \o tail)

DropTails == { <<>>, <<wRESTRICT>>, <<wCASCADE>> }

DropInputs == { DropText(b, t) : b \in BOOLEAN, t \in DropTails }

\* --- expressions with a `(` that no `)` closes ---
ParenInputs ==
    { Spaced(<<wSELECT, <<"a">>, <<"(">>, <<"b">>, wFROM, <<"t">> >>),
      Spaced(<<wSELECT, <<"(">>, <<"a">>, <<"(">>, <<"b">>, <<")">>, wFROM,
               <<"t">> >>),
      Spaced(<<wSELECT, <<"1">>, <<"+">>, <<"2">>, <<"(">>, <<"3">>, wFROM,
               <<"t">> >>),
      Spaced(<<wINSERT, wINTO, <<"t">>, wVALUES, <<"(">>, <<"1">>, <<"(">>,
               <<"2">>, <<")">> >>),
      Spaced(<<wUPDATE, <<"t">>, wSET, <<"c">>, <<"=">>, <<"1">>, <<"(">>,
               <<"2">> >>) }

\* --- statements that follow one another with or without a `;` ---
\* most statements and `;` in a text of adjacent statements
MaxAdj == 3

AdjForms ==
    SepForms \cup
    { <<wDROP, wTABLE, <<"b">> >>,
      <<wUPDATE, <<"t">>, wSET, <<"c">>, <<"=">>, <<"1">> >>,
      <<wINSERT, wINTO, <<"t">>, wVALUES, <<"(">>, <<"1">>, <<")">> >>,
      <<wCREATE, wTABLE, <<"t">>, <<"(">>, <<"a">>, <<"I","N","T">>,
        <<")">> >> }

\* the statement forms, each as one item, and `;`
AdjItems == { <<Flatten(Spaced(f))>> : f \in AdjForms } \cup { << <<";">> >> }

RECURSIVE AdjSeqs(_)
AdjSeqs(k) ==
    IF k = 1 THEN AdjItems
    ELSE { t \o i : t \in AdjSeqs(k - 1), i \in AdjItems }

\* the items are separated by white space only
AdjInputs == { Spaced(t) : t \in UNION { AdjSeqs(k) : k \in 1..MaxAdj } }

ParseInputs ==
    ExprInputs \cup WhereInputs \cup PlainInputs \cup StmtSeqInputs
    \cup MiscInputs \cup LeadInputs \cup SepInputs \cup CreateInputs
    \cup InsertInputs \cup DropInputs \cup ParenInputs

\* ------------------------------------------------------------------------
\* State
\* ------------------------------------------------------------------------
VARIABLES
    parts,  \* the source text, as its segments
    src,    \* Lexer.src: the characters not yet walked
    out,    \* the results of the direct calls of Lexer::next so far
    psr,    \* the Parser built on the lexer: its state, curr and peek
    res     \* what the last parser operation returned

vars == <<parts, src, out, psr, res>>

src0 == Flatten(parts)

EofRes == Ok("Eof", <<>>)

EofCalls == Cardinality({ i \in 1..Len(out) : out[i] = EofRes })

NoRes ==
    [op |-> "none", arg |-> <<>>, st |-> "none", val |-> <<>>, err |-> NoErr]

\* Lexer::new
Init ==
    /\ parts \in LexInputs \cup ParseInputs
    /\ src = Flatten(parts)
    /\ out = <<>>
    /\ psr = [state |-> "none", curr |-> NoTok, peek |-> NoTok]
    /\ res = NoRes

\* one call of Lexer::next on a lexer that no parser owns
LexNext ==
    /\ psr.state = "none"
    /\ EofCalls < MaxEofCalls
    /\ LET st == LexerNext(src)
       IN  /\ src' = st.src
           /\ out' = Append(out, st.res)
    /\ UNCHANGED <<parts, psr, res>>

\* Parser::new(lexer) on the fresh lexer, as Executor::run builds it
DoParserNew ==
    /\ psr.state = "none"
    /\ out = <<>>
    /\ LET r == ParserNew(src)
       IN  /\ src' = r.p.src
           /\ psr' = [state |-> IF r.st = "ok" THEN "ready" ELSE "failed",
                      curr |-> r.p.curr, peek |-> r.p.peek]
           /\ res' = [op |-> "new", arg |-> <<>>, st |-> r.st, val |-> <<>>,
                      err |-> r.err]
    /\ UNCHANGED <<parts, out>>

\* Parser::parse on the parser
DoParse ==
    /\ psr.state = "ready"
    /\ LET r == parse(Psr(src, psr.curr, psr.peek))
       IN  /\ src' = r.p.src
           /\ psr' = [state |-> IF r.st = "panic" THEN "panicked" ELSE "done",
                      curr |-> r.p.curr, peek |-> r.p.peek]
           /\ res' = [op |-> "parse", arg |-> <<>>, st |-> r.st,
                      val |-> IF r.st = "ok" THEN r.val ELSE <<>>,
                      err |-> r.err]
    /\ UNCHANGED <<parts, out>>

Next == LexNext \/ DoParserNew \/ DoParse

Spec == Init /\ [][Next]_vars

\* --- Executor::run ---
\* enum QueryResult, with the statements handed to execute_simple; a panic
\* is kept as a result of its own
QueryResult(st, stmts, err) ==
    [op |-> "run", arg |-> <<>>, st |-> st, val |-> stmts, err |-> err]

\* Executor::run, after parser.unwrap().parse()
ExecutorRun_2(r) ==
    IF r.st = "panic" THEN QueryResult("panic", <<>>, NoErr)
    ELSE IF r.st = "err" THEN QueryResult("Error", <<>>, r.err)
    ELSE QueryResult("Success", r.val, NoErr)

\* Executor::run, after Parser::new(lexer): unwrap() panics on an Err
ExecutorRun_1(n) ==
    IF n.st # "ok" THEN QueryResult("panic", <<>>, n.err)
    ELSE ExecutorRun_2(parse(n.p))

\* Executor::run
ExecutorRun(s) == ExecutorRun_1(ParserNew(s))

InitRun ==
    /\ parts \in StmtSeqInputs \cup SepInputs
    /\ src = Flatten(parts)
    /\ out = <<>>
    /\ psr = [state |-> "none", curr |-> NoTok, peek |-> NoTok]
    /\ res = NoRes

\* one call of Executor::run on the text; the lexer and the parser are
\* locals of the call
DoRun ==
    /\ res.op = "none"
    /\ res' = ExecutorRun(src)
    /\ UNCHANGED <<parts, src, out, psr>>

NextRun == DoRun

SpecRun == InitRun /\ [][NextRun]_vars

\* --- the parser driven one primitive at a time ---
\* the token lists handed to Parser::expect and Parser::maybe
Probes ==
    { <<>>, <<"Drop">>, <<"Table">>, <<"Ident">>, <<"Drop", "Table">>,
      <<"Drop", "Column">>, <<"Table", "Ident">> }

\* the calls: Parser::next, Parser::consume_ident, Parser::expect(tokens),
\* Parser::maybe(tokens)
PrimCalls ==
    { [op |-> "next", arg |-> <<>>], [op |-> "consume_ident", arg |-> <<>>] }
    \cup { [op |-> "expect", arg |-> ts] : ts \in Probes }
    \cup { [op |-> "maybe", arg |-> ts] : ts \in Probes }

ApplyPrim(p, c) ==
    CASE c.op = "next" -> ParserNext(p)
      [] c.op = "consume_ident" -> consume_ident(p)
      [] c.op = "expect" -> expect(p, c.arg)
      [] c.op = "maybe" -> maybe(p, c.arg)

\* texts for the primitives
StepInputs ==
    { <<>>,
      Spaced(<<wDROP, wTABLE, <<"a">> >>),
      Spaced(<<wDROP, <<"a">>, wTABLE>>),
      Spaced(<<wDROP, wDROP, wTABLE, wTABLE, <<"b">>, <<"1">> >>),
      Spaced(<<wTABLE, <<"a">>, <<"b">>, wDROP, wTABLE, <<";">> >>),
      Spaced(<<wALTER, wTABLE, <<"t">>, wDROP, <<"c">> >>),
      Spaced(<<wDROP, wTABLE, <<"$">>, <<"a">> >>),
      Spaced(<<wDROP, wTABLE, <<"a">>, <<";">>, wDROP, wTABLE, <<"b">> >>) }

InitSteps ==
    /\ parts \in StepInputs
    /\ src = Flatten(parts)
    /\ out = <<>>
    /\ psr = [state |-> "none", curr |-> NoTok, peek |-> NoTok]
    /\ res = NoRes

\* one call of a primitive on the parser, as the statement parsers make
\* them; an Err ends the use of the parser
DoPrim ==
    /\ psr.state \in { "ready", "stepping" }
    /\ \E c \in PrimCalls :
         LET r == ApplyPrim(Psr(src, psr.curr, psr.peek), c)
         IN  /\ src' = r.p.src
             /\ psr' = [state |-> IF r.st = "ok" THEN "stepping" ELSE "stopped",
                        curr |-> r.p.curr, peek |-> r.p.peek]
             /\ res' = [op |-> c.op, arg |-> c.arg, st |-> r.st,
                        val |-> IF r.st = "ok" /\ c.op # "expect"
                                THEN <<r.val>> ELSE <<>>,
                        err |-> r.err]
    /\ UNCHANGED <<parts, out>>

NextSteps == DoParserNew \/ DoPrim \/ DoParse

SpecSteps == InitSteps /\ [][NextSteps]_vars

\* --- Parser::new and Parser::parse over adjacent statements ---
InitAdj ==
    /\ parts \in AdjInputs
    /\ src = Flatten(parts)
    /\ out = <<>>
    /\ psr = [state |-> "none", curr |-> NoTok, peek |-> NoTok]
    /\ res = NoRes

NextAdj == DoParserNew \/ DoParse

SpecAdj == InitAdj /\ [][NextAdj]_vars

\* ------------------------------------------------------------------------
\* Properties of the tokenizer
\* ------------------------------------------------------------------------
Min(a, b) == IF a < b THEN a ELSE b

\* C1: once Lexer::next has returned Ok(Eof), the next call on the same
\* lexer returns Ok(Eof) again: never an error and never another token.
C1_EofRepeats ==
    [][(out # <<>> /\ out[Len(out)] = EofRes) => out'[Len(out')] = EofRes]_vars

\* a text with a token in it, over-called twice after its end marker
C1_Witness ==
    /\ Len(out) >= 4
    /\ out[1] # EofRes
    /\ out[Len(out) - 2] = EofRes
    /\ out[Len(out)] = EofRes

\* the text is lexemes separated by white space and comments
IsPieces(ps) ==
    /\ Len(ps) % 2 = 1
    /\ ps[1] \in LeadSeps
    /\ \A i \in 2..Len(ps) :
         IF i % 2 = 0 THEN ps[i] \in Lexemes
         ELSE IF i < Len(ps) THEN ps[i] \in Seps
         ELSE ps[i] \in Seps \cup EndSeps

NumLexemes(ps) == (Len(ps) - 1) \div 2

ExampleSelectTokens ==
    << Ok("Select", <<>>), Ok("Mul", <<>>), Ok("From", <<>>),
       Ok("Ident", wusers), Ok("Where", <<>>), Ok("Ident", wid),
       Ok("Eq", <<>>), Ok("Int", <<"1">>), Ok("Semicolon", <<>>), EofRes >>

ExampleCommentTokens ==
    << Ok("Select", <<>>), Ok("From", <<>>), Ok("Ident", wusers), EofRes >>

\* C2: white space and `--` comments produce no tokens: the i-th call of
\* Lexer::next returns the token of the i-th lexeme of the text, and the end
\* marker after the last one (also when a comment ends the input without a
\* newline); `SELECT * FROM users WHERE id = 1;` yields Select, Mul, From,
\* Ident(users), Where, Ident(id), Eq, Int(1), Semicolon, Eof.
C2_SeparatorsYieldNoTokens ==
    /\ IsPieces(parts) =>
         \A i \in 1..Len(out) :
            out[i] = IF i <= NumLexemes(parts) THEN LexemeTok(parts[2 * i])
                     ELSE EofRes
    /\ parts = ExampleSelect =>
         \A i \in 1..Len(out) : out[i] = ExampleSelectTokens[Min(i, 10)]
    /\ parts = ExampleComment =>
         \A i \in 1..Len(out) : out[i] = ExampleCommentTokens[Min(i, 4)]

\* two lexemes, the second followed by a comment that runs to end of input,
\* drained to the end marker
C2_Witness ==
    /\ IsPieces(parts)
    /\ NumLexemes(parts) = 2
    /\ parts[3] = <<"-","-","c","\n">>
    /\ parts[Len(parts)] = <<"-","-","c">>
    /\ Len(out) = 3
    /\ out[3] = EofRes

\* --- numbers ---
RECURSIVE Dec(_)
\* the decimal value of a short digit string
Dec(ds) == IF ds = <<>> THEN 0 ELSE 10 * Dec(SubSeq(ds, 1, Len(ds) - 1))
                                     + DigitVal(ds[Len(ds)])

RECURSIVE Pow10(_)
Pow10(n) == IF n = 0 THEN 1 ELSE 10 * Pow10(n - 1)

\* length of the longest prefix of s made of digits
RECURSIVE DigitRun(_)
DigitRun(s) ==
    IF s # <<>> /\ Head(s) \in SeqRange(DigitSeq) THEN 1 + DigitRun(Tail(s))
    ELSE 0

Drop(s, n) == SubSeq(s, n + 1, Len(s))

AllDigits(s) == \A i \in 1..Len(s) : s[i] \in SeqRange(DigitSeq)

\* a short text that starts with a digit
IsShortNum(s) ==
    /\ s # <<>>
    /\ Len(s) <= MaxNumLen + 1
    /\ s[1] \in SeqRange(DigitSeq)
    /\ \A i \in 1..Len(s) : s[i] \in SeqRange(DigitSeq) \cup {"."}

\* the token val ip.fp has the value of the digits r1 '.' r2
FloatValueIs(val, r1, r2) ==
    LET d  == CHOOSE i \in 1..Len(val) : val[i] = "."
        ip == SubSeq(val, 1, d - 1)
        fp == SubSeq(val, d + 1, Len(val))
    IN  /\ AllDigits(ip) /\ AllDigits(fp)
        /\ Dec(ip) = Dec(r1)
        /\ Dec(fp) * Pow10(Len(r2)) = Dec(r2) * Pow10(Len(fp))

\* C3: a maximal run of digits with at most one '.' is one literal: without
\* '.' it is Int of the decimal value, with '.' it is Float (a trailing '.'
\* reads as '.0'); a second '.' is not part of the literal and comes out as
\* Dot (`1.2.3` is Float(1.2), Dot, Int(3)); a digit run that does not fit in
\* an i64 fails with InvalidNum carrying the raw text.
C3_NumericLiterals ==
    /\ (IsShortNum(src0) /\ out # <<>>) =>
         LET n1  == DigitRun(src0)
             dot == n1 < Len(src0)
             r1  == SubSeq(src0, 1, n1)
             n2  == IF dot THEN DigitRun(Drop(src0, n1 + 1)) ELSE 0
             r2  == SubSeq(src0, n1 + 2, n1 + 1 + n2)
             rest == Drop(src0, IF dot THEN n1 + 1 + n2 ELSE n1)
         IN  /\ out[1].ok
             /\ ~dot => /\ out[1].kind = "Int"
                        /\ AllDigits(out[1].val)
                        /\ Dec(out[1].val) = Dec(r1)
             /\ dot => /\ out[1].kind = "Float"
                       /\ FloatValueIs(out[1].val, r1, r2)
                       /\ out[1] = LexerNext(r1 \o <<".">> \o
                                     (IF r2 = <<>> THEN <<"0">> ELSE r2)).res
             /\ Len(out) = 1 => src = rest
             /\ (Len(out) >= 2 /\ rest # <<>>) => out[2] = Ok("Dot", <<>>)
    /\ (src0 = <<"1",".","2",".","3">> /\ Len(out) >= 3) =>
         SubSeq(out, 1, 3) = << Ok("Float", <<"1",".","2">>), Ok("Dot", <<>>),
                                Ok("Int", <<"3">>) >>
    /\ out # <<>> =>
         /\ src0 = I64MaxDigits => out[1] = Ok("Int", I64MaxDigits)
         /\ src0 = <<"0","0">> \o I64MaxDigits => out[1] = Ok("Int", I64MaxDigits)
         /\ src0 \in { I64MaxPlus1, <<"0">> \o I64MaxPlus1,
                       I64MaxDigits \o <<"0">> } =>
              out[1] = Err("InvalidNum", src0)
         /\ src0 = I64MaxPlus1 \o <<".">> => out[1].ok /\ out[1].kind = "Float"

C3_Witness ==
    /\ src0 = <<"1",".","2",".","3">>
    /\ Len(out) = 3
    /\ out[3] = Ok("Int", <<"3">>)

\* --- words ---
\* the keywords among the base words, by their lower-case spelling
BaseWordTok(w, v) ==
    CASE w = <<"s","e","l","e","c","t">> -> Ok("Select", <<>>)
      [] w = <<"o","r">>                 -> Ok("Or", <<>>)
      [] w = <<"i","n","t">>             -> Ok("IntType", <<>>)
      [] w = <<"t","r","u","e">>         -> Ok("Bool", <<"true">>)
      [] OTHER                           -> Ok("Ident", v)

\* v is the lower-case word w with some of its letters in upper case
IsCaseVariant(v, w) ==
    /\ Len(v) = Len(w)
    /\ \A i \in 1..Len(w) : v[i] = w[i] \/ v[i] = ToUpperCh(w[i])

\* C4: keywords are recognised in any mix of upper and lower case, and a
\* word that is not in the keyword table is Ident with the text exactly as
\* written.
C4_KeywordCase ==
    \A w \in BaseWords :
       (IsCaseVariant(parts[1], w) /\ out # <<>>) =>
           out[1] = BaseWordTok(w, parts[1])

C4_Witness ==
    /\ parts[1] = <<"S","e","L","e","C","t">>
    /\ out # <<>>
    /\ out[1] = Ok("Select", <<>>)

\* --- quoted text ---
Quotes == { "'", "\"" }

\* what the escape \c stands for
EscapeMeaning(c) ==
    CASE c = "\\" -> <<"\\">>
      [] c = "'"  -> <<"'">>
      [] c = "\"" -> <<"\"">>
      [] c = "n"  -> <<"\n">>
      [] c = "r"  -> <<"\r">>
      [] c = "t"  -> <<"\t">>
      [] OTHER    -> <<"\\", c>>

Has(s, c) == \E i \in 1..Len(s) : s[i] = c

FirstPos(s, c) == CHOOSE i \in 1..Len(s) : s[i] = c /\ \A j \in 1..(i - 1) : s[j] # c

\* s is  q pre \ c post q rest  with no q and no backslash in pre and post
OneEscape(s) ==
    /\ Len(s) >= 4
    /\ s[1] \in Quotes
    /\ Has(s, "\\")
    /\ LET i == FirstPos(s, "\\")
       IN  /\ i + 1 <= Len(s)
           /\ ~Has(SubSeq(s, 2, i - 1), s[1])
           /\ Has(Drop(s, i + 1), s[1])
           /\ LET j == i + 1 + FirstPos(Drop(s, i + 1), s[1])
              IN  ~Has(SubSeq(s, i + 2, j - 1), "\\")

OneEscapeText(s) ==
    LET i == FirstPos(s, "\\")
        j == i + 1 + FirstPos(Drop(s, i + 1), s[1])
    IN  SubSeq(s, 2, i - 1) \o EscapeMeaning(s[i + 1]) \o SubSeq(s, i + 2, j - 1)

OneEscapeRest(s) ==
    LET i == FirstPos(s, "\\")
    IN  Drop(s, i + 1 + FirstPos(Drop(s, i + 1), s[1]))

\* s is  q body q rest  with no q and no backslash in body
NoEscape(s) ==
    /\ Len(s) >= 2
    /\ s[1] \in Quotes
    /\ Has(Tail(s), s[1])
    /\ ~Has(SubSeq(s, 2, FirstPos(Tail(s), s[1])), "\\")

\* C5: in a quoted literal \\ \' \" \n \r \t contribute one character, a
\* backslash before any other character contributes both characters, an
\* escaped quote does not close the literal, and the literal is closed by
\* the first unescaped occurrence of its opening quote (the other quote
\* character is content).
C5_QuotedText ==
    /\ (OneEscape(src0) /\ out # <<>>) =>
         /\ out[1] = Ok("Text", OneEscapeText(src0))
         /\ Len(out) = 1 => src = OneEscapeRest(src0)
    /\ (NoEscape(src0) /\ out # <<>>) =>
         /\ out[1] = Ok("Text", SubSeq(src0, 2, FirstPos(Tail(src0), src0[1])))
         /\ Len(out) = 1 => src = Drop(src0, 1 + FirstPos(Tail(src0), src0[1]))

\* a literal holding the other quote character and an escaped quote
C5_Witness ==
    /\ src0 = <<"'", "\"", "\\", "'", "'">>
    /\ out # <<>>
    /\ out[1] = Ok("Text", <<"\"", "'">>)

\* the number of backslashes directly before position j, inside the literal
RECURSIVE BackslashRun(_, _)
BackslashRun(s, j) ==
    IF j > 2 /\ s[j - 1] = "\\" THEN 1 + BackslashRun(s, j - 1) ELSE 0

\* some occurrence of the opening quote is not escaped
HasClosingQuote(s) ==
    \E j \in 2..Len(s) : s[j] = s[1] /\ BackslashRun(s, j) % 2 = 0

\* C6: a quoted literal with no unescaped closing quote before the end of
\* input fails with UnterminatedText.
C6_Unterminated ==
    (src0 # <<>> /\ src0[1] \in Quotes /\ ~HasClosingQuote(src0) /\ out # <<>>)
        => out[1] = Err("UnterminatedText", <<>>)

\* the input ends right after a backslash
C6_Witness ==
    /\ src0 = <<"'", "q", "\\">>
    /\ out # <<>>
    /\ out[1] = Err("UnterminatedText", <<>>)

\* ------------------------------------------------------------------------
\* Properties of the parser
\* ------------------------------------------------------------------------
\* Parser::new has failed, or Parser::parse has returned or panicked
Finished == psr.state \in { "failed", "done", "panicked" }

\* the text is  SELECT a op1 b op2 c FROM t
IsBinChain(ps) ==
    /\ Len(ps) = 15
    /\ ps[1] = wSELECT
    /\ ps[3] \in OperandsA
    /\ ps[5] \in BinOpLexemes
    /\ ps[7] \in OperandsB
    /\ ps[9] \in BinOpLexemes
    /\ ps[11] \in OperandsC
    /\ ps[13] = wFROM

\* the operator token a lexeme stands for
BinOpKind(x) ==
    CASE x = <<"O","R">>     -> "Or"
      [] x = <<"A","N","D">> -> "And"
      [] x = <<"=">>         -> "Eq"
      [] x = <<">">>         -> "Gt"
      [] x = <<"<">>         -> "Lt"
      [] x = <<">","=">>     -> "Ge"
      [] x = <<"<","=">>     -> "Le"
      [] x = <<"+">>         -> "Add"
      [] x = <<"-">>         -> "Sub"
      [] x = <<"*">>         -> "Mul"
      [] x = <<"/">>         -> "Div"

\* the binding-power table: OR(1) < AND(2) < =(3) < > < >= <=(4) < + -(5)
\* < * /(6)
BindingPower(op) ==
    CASE op = "Or" -> 1
      [] op = "And" -> 2
      [] op = "Eq" -> 3
      [] op \in { "Gt", "Lt", "Ge", "Le" } -> 4
      [] op \in { "Add", "Sub" } -> 5
      [] op \in { "Mul", "Div" } -> 6

\* the expression an operand stands for: a unary operator applies to the
\* primary right after it
OperandExpr(x) ==
    CASE x = <<"1">> -> Leaf("Int", <<"1">>)
      [] x = <<"2">> -> Leaf("Int", <<"2">>)
      [] x = <<"3">> -> Leaf("Int", <<"3">>)
      [] x = <<"-"," ","2">> -> Unary("Sub", Leaf("Int", <<"2">>))
      [] x = wNOT \o <<" ","y">> -> Unary("Not", Leaf("Ident", <<"y">>))
      [] x = wNOT \o <<" ","-"," ","2">> ->
           Unary("Not", Unary("Sub", Leaf("Int", <<"2">>)))
      [] x = <<"("," ","1"," ","+"," ","2"," ",")">> ->
           Binary("Add", Leaf("Int", <<"1">>), Leaf("Int", <<"2">>))

\* a op1 b op2 c with the operator of higher binding power nested deeper
NestByPower(a, op1, b, op2, c) ==
    IF BindingPower(op1) < BindingPower(op2)
    THEN Binary(op1, a, Binary(op2, b, c))
    ELSE Binary(op2, Binary(op1, a, b), c)

\* C7: for two adjacent binary operators of different binding power the one
\* of higher power is nested deeper, whatever their order in the text
\* (`1 + 2 * 3` is +(1, *(2, 3)), `1 * 2 + 3` is +(*(1, 2), 3)), and a unary
\* NOT or - applies to the primary right after it only, never to a binary
\* expression that follows.
C7_Precedence ==
    (IsBinChain(parts) /\ res.op = "parse"
       /\ BindingPower(BinOpKind(parts[5])) # BindingPower(BinOpKind(parts[9])))
    => /\ res.st = "ok"
       /\ Len(res.val) = 1
       /\ res.val[1].stmt = "Select"
       /\ res.val[1].columns =
            << NestByPower(OperandExpr(parts[3]), BinOpKind(parts[5]),
                           OperandExpr(parts[7]), BinOpKind(parts[9]),
                           OperandExpr(parts[11])) >>

\* `1 + - 2 * 3`: the unary minus takes 2, the product takes the negation
C7_Witness ==
    /\ parts = Spaced(<<wSELECT, <<"1">>, <<"+">>, <<"-"," ","2">>, <<"*">>,
                        <<"3">>, wFROM, <<"t">> >>)
    /\ res.op = "parse"
    /\ res.st = "ok"
    /\ res.val[1].columns =
         << Binary("Add", Leaf("Int", <<"1">>),
                   Binary("Mul", Unary("Sub", Leaf("Int", <<"2">>)),
                          Leaf("Int", <<"3">>))) >>

\* C8: SELECT, UPDATE and DELETE followed by `WHERE <expr>` are accepted:
\* Parser::parse returns Ok with exactly one statement.
C8_WhereAccepted ==
    (parts \in WhereInputs /\ Finished) =>
        /\ res.op = "parse"
        /\ res.st = "ok"
        /\ Len(res.val) = 1

\* the text has a fragment with a lexical or a grammar error
HasBadFrag(ps) ==
    \E i \in 1..Len(ps) : \E f \in BadFrags :
        i + Len(f) - 1 <= Len(ps) /\ SubSeq(ps, i, i + Len(f) - 1) = f

\* C9: when the text contains a lexical or a grammar error, parsing returns
\* Err and no statement list, however many valid statements come first.
C9_ErrorAborts ==
    (parts \in StmtSeqInputs /\ HasBadFrag(parts) /\ Finished) =>
        /\ res.st = "err"
        /\ res.val = <<>>

\* the token a lexeme is lexed to
LeadTok(l) == Tok(LexerNext(l).res.kind, LexerNext(l).res.val)

\* the error of the last branch of Parser::parse_stmt
NoStmtErr(tok) ==
    UnexpectedToken("SELECT, INSERT, UPDATE, DELETE, CREATE, DROP", tok)

\* the text is pre, a statement that starts with one of leads, suf
IsLeadText(ps, leads) ==
    \E pre \in LeadPrefixes, l \in leads, suf \in LeadSuffixes :
        ps = Spaced(pre \o <<l>> \o suf)

\* the lexeme the statement starts with
LeadOf(ps) ==
    CHOOSE l \in OtherLeads \cup StmtLeads :
        \E pre \in LeadPrefixes, suf \in LeadSuffixes :
            ps = Spaced(pre \o <<l>> \o suf)

\* C11 as stated: a statement that starts with any token other than CREATE,
\* INSERT, SELECT, UPDATE, DELETE or DROP (and not `;` or Eof) makes parse
\* fail with UnexpectedToken{expected: "SELECT, INSERT, UPDATE, DELETE,
\* CREATE, DROP", found: that token}.
C11_OtherLeadRejected ==
    (res.op = "parse" /\ IsLeadText(parts, OtherLeads \cup { wALTER }))
    => /\ res.st = "err"
       /\ res.err = NoStmtErr(LeadTok(LeadOf(parts)))

\* C11 amended: a statement that starts with any token other than the
\* keywords Parser::parse_stmt has a branch for (CREATE, INSERT, SELECT,
\* UPDATE, ALTER, DELETE, TRUNCATE, DROP; and not `;` or Eof) makes parse
\* fail with UnexpectedToken{expected: "SELECT, INSERT, UPDATE, DELETE,
\* CREATE, DROP", found: that token}.
C11_UndispatchedLeadRejected ==
    (res.op = "parse" /\ IsLeadText(parts, OtherLeads))
    => /\ res.st = "err"
       /\ res.err = NoStmtErr(LeadTok(LeadOf(parts)))

\* `SELEC * FROM t` has failed on Ident("SELEC")
C11_Witness ==
    /\ parts = Spaced(<<wSELEC, <<"*">>, wFROM, <<"t">> >>)
    /\ res.op = "parse"
    /\ res.st = "err"
    /\ res.err = NoStmtErr(Tok("Ident", wSELEC))

\* the items of a text written with Spaced
ItemsOf(ps) == [i \in 1..((Len(ps) + 1) \div 2) |-> ps[2 * i - 1]]

\* the text is statements of SepForms, `;` and comments, with at least one
\* `;` between two statements
IsSepText(ps) ==
    \/ ps = <<>>
    \/ /\ Len(ps) % 2 = 1
       /\ Len(ps) <= 2 * (MaxItems + 1) - 1
       /\ \A i \in 1..Len(ps) :
            IF i % 2 = 1 THEN <<ps[i]>> \in SepItems ELSE ps[i] = " "
       /\ Separated(ItemsOf(ps), FALSE)

\* enum Stmt values
StmtDrop(table, if_exists, cascade) ==
    [stmt |-> "Drop", table |-> table, if_exists |-> if_exists,
     cascade |-> cascade]

StmtDelete(table) == [stmt |-> "Delete", table |-> table, where_clause |-> <<>>]

StmtSelect(table, distinct, columns) ==
    [stmt |-> "Select", table |-> table, distinct |-> distinct,
     columns |-> columns, where_clause |-> <<>>, group_by |-> <<>>,
     having |-> <<>>, order_by |-> <<>>, limit |-> <<>>]

\* the statement a form of SepForms stands for
SepStmt(x) ==
    CASE x = Flatten(Spaced(<<wDROP, wTABLE, <<"a">> >>)) ->
           StmtDrop(<<"a">>, FALSE, FALSE)
      [] x = Flatten(Spaced(<<wDELETE, wFROM, <<"t">> >>)) ->
           StmtDelete(<<"t">>)
      [] x = Flatten(Spaced(<<wSELECT, <<"*">>, wFROM, <<"u">> >>)) ->
           StmtSelect(<<"u">>, FALSE, <<>>)

\* the statements of a list of items, in their order
RECURSIVE StmtsOf(_)
StmtsOf(items) ==
    IF items = <<>> THEN <<>>
    ELSE IF IsStmtItem(Head(items))
         THEN <<SepStmt(Head(items))>> \o StmtsOf(Tail(items))
         ELSE StmtsOf(Tail(items))

\* the tags of a list of statements
StmtTags(stmts) == [i \in 1..Len(stmts) |-> stmts[i].stmt]

NumCols(ps) == (Len(ItemsOf(ps)) - 4) \div 3

\* the word after the name of column i
ColWord(ps, i) == ItemsOf(ps)[3 * i + 3]

\* the canonical name of a type keyword
CanonType(w) ==
    CASE w \in { <<"B","O","O","L">>, <<"B","O","O","L","E","A","N">> } ->
           "BOOLEAN"
      [] w \in { <<"I","N","T">>, <<"I","N","T","E","G","E","R">> } ->
           "INTEGER"
      [] w \in { <<"F","L","O","A","T">>, <<"D","O","U","B","L","E">> } ->
           "FLOAT"
      [] w \in { <<"T","E","X","T">>, <<"S","T","R","I","N","G">>,
                 <<"V","A","R","C","H","A","R">> } -> "TEXT"

StmtCreate(table, columns) ==
    [stmt |-> "Create", table |-> table, columns |-> columns,
     if_not_exists |-> FALSE]

ExprOf(x) ==
    CASE x = eOne -> Leaf("Int", <<"1">>)
      [] x = eText -> Leaf("Text", <<"x">>)
      [] x = eNeg -> Unary("Sub", Leaf("Int", <<"2">>))
      [] x = eSum -> Binary("Add", Leaf("Int", <<"1">>), Leaf("Int", <<"2">>))

StmtInsertValues(table, columns, values) ==
    [stmt |-> "InsertValues", table |-> table, columns |-> columns,
     values |-> values]

\* C14: INSERT INTO <ident> [ ( <ident>, ... ) ] VALUES ( <expr>, ... )
\* {, ( <expr>, ... )} parses to InsertValues{table, columns, values}:
\* columns is the explicit column list in source order (empty when the list
\* is omitted), values has one entry per tuple in source order, each with
\* the tuple's expressions in order.
C14_InsertValues ==
    (parts \in InsertInputs /\ Finished)
    => /\ res.op = "parse"
       /\ res.st = "ok"
       /\ \A c \in ColOptions :
            \A ts \in UNION { TupleLists(k) : k \in 1..MaxTuples } :
              parts = InsertText(c, ts)
              => res.val =
                   << StmtInsertValues(
                        <<"t">>, c,
                        [i \in 1..Len(ts) |->
                           [j \in 1..Len(ts[i]) |-> ExprOf(ts[i][j])]]) >>

\* `INSERT INTO t ( a ) VALUES ( 1 )` has given columns [a] and values [[1]]
C14_Witness ==
    /\ parts = InsertText(<< <<"a">> >>, << <<eOne>> >>)
    /\ res.op = "parse"
    /\ res.st = "ok"
    /\ res.val[1].stmt = "InsertValues"
    /\ res.val[1].columns = << <<"a">> >>
    /\ res.val[1].values = << << Leaf("Int", <<"1">>) >> >>

\* C15: DROP TABLE [IF EXISTS] <ident> [RESTRICT | CASCADE], lexed by Lexer
\* and parsed by Parser::parse, gives exactly one Drop statement with the
\* table name, if_exists true exactly when IF EXISTS is present and cascade
\* true exactly when CASCADE is present.
C15_DropTable ==
    (parts \in DropInputs /\ Finished)
    => /\ res.op = "parse"
       /\ res.st = "ok"
       /\ \A b \in BOOLEAN : \A t \in DropTails :
            parts = DropText(b, t)
            => res.val = << StmtDrop(<<"a">>, b, t = <<wCASCADE>>) >>

\* the steps of Lexer::next on the text s, up to the first Eof or error
RECURSIVE LexAll(_)
LexAll(s) ==
    IF ~LexerNext(s).res.ok \/ LexerNext(s).res.kind = "Eof"
    THEN <<LexerNext(s)>>
    ELSE <<LexerNext(s)>> \o LexAll(LexerNext(s).src)

\* step i of the token stream S, counted from 0, with Eof repeated after
\* the end
StepAt(S, i) == IF i < Len(S) THEN S[i + 1] ELSE S[Len(S)]

\* curr and peek are tokens i and i+1 of the stream S and the lexer has
\* been pulled i+2 times
AlignedAt(S, curr, peek, s, i) ==
    /\ StepAt(S, i).res.ok
    /\ StepAt(S, i + 1).res.ok
    /\ curr = Tok(StepAt(S, i).res.kind, StepAt(S, i).res.val)
    /\ peek = Tok(StepAt(S, i + 1).res.kind, StepAt(S, i + 1).res.val)
    /\ s = StepAt(S, i + 1).src

\* the parser holds tokens and no lexer error has been met
Holding(ps, rs) ==
    /\ ps.state \in { "ready", "stepping", "stopped", "done" }
    /\ rs.err.kind \in { "None", "UnexpectedToken" }

\* the number of tokens consumed: the first position the parser is
\* aligned at
PosOf(S, curr, peek, s) ==
    CHOOSE i \in 0..Len(S) :
        /\ AlignedAt(S, curr, peek, s, i)
        /\ \A j \in 0..(i - 1) : ~AlignedAt(S, curr, peek, s, j)

\* the parser is aligned with the stream S after the step, and has not
\* moved backwards
LookaheadStep(S) ==
    /\ \E i \in 0..Len(S) : AlignedAt(S, psr'.curr, psr'.peek, src', i)
    /\ Holding(psr, res)
       => /\ PosOf(S, psr'.curr, psr'.peek, src')
             >= PosOf(S, psr.curr, psr.peek, src)
          /\ psr.curr = Tok("Eof", <<>>)
             => /\ psr'.curr = Tok("Eof", <<>>)
                /\ psr'.peek = Tok("Eof", <<>>)

\* C16: after Parser::new and after every parser operation, curr and peek
\* are tokens i and i+1 of the lexer's token stream (continued with Eof
\* forever) and the lexer has been pulled exactly i+2 times; an operation
\* never moves i backwards, and once curr is Eof, curr and peek stay Eof.
C16_Lookahead ==
    [][Holding(psr', res') => LookaheadStep(LexAll(src0))]_vars

\* `DROP TABLE a`: three tokens have been consumed one by one, then
\* Parser::next has been called once more and has returned Eof
C16_Witness ==
    /\ parts = Spaced(<<wDROP, wTABLE, <<"a">> >>)
    /\ psr.state = "stepping"
    /\ res.op = "next"
    /\ res.val = << Tok("Eof", <<>>) >>
    /\ psr.curr = Tok("Eof", <<>>)
    /\ psr.peek = Tok("Eof", <<>>)
    /\ src = <<>>

\* how many of the kinds ts (at most two) the upcoming tokens match, in
\* order
MatchLen(ts, curr, peek) ==
    IF ts = <<>> \/ curr.kind # LexKind(ts[1]) THEN 0
    ELSE IF Len(ts) = 1 \/ peek.kind # LexKind(ts[2]) THEN 1
    ELSE 2

\* the parser has moved on by exactly k tokens of the stream S
Advanced(S, k) ==
    AlignedAt(S, psr'.curr, psr'.peek, src',
              PosOf(S, psr.curr, psr.peek, src) + k)

\* Parser::expect(ts) as the claim describes it, m of the kinds matching
ExpectStep(S, ts, m) ==
    IF m = Len(ts)
    THEN res'.st = "ok" /\ Advanced(S, Len(ts))
    ELSE /\ res'.st = "err"
         /\ res'.err.kind = "UnexpectedToken"
         /\ res'.err.expected = ts[m + 1]
         /\ res'.err.found = psr'.curr
         /\ Advanced(S, m)

\* Parser::maybe(ts) as the claim describes it, m of the kinds matching
MaybeStep(S, ts, m) ==
    /\ res'.st = "ok"
    /\ IF m = Len(ts)
       THEN res'.val = <<TRUE>> /\ Advanced(S, Len(ts))
       ELSE /\ res'.val = <<FALSE>>
            /\ psr'.curr = psr.curr
            /\ psr'.peek = psr.peek
            /\ src' = src

\* C17 as stated: expect and maybe compare token kinds only. expect consumes one
\* token per expected kind while the kinds match and on a mismatch returns
\* UnexpectedToken{expected, found} without consuming the mismatching
\* token. maybe returns Ok(true) after consuming exactly the given kinds;
\* when the upcoming tokens do not match them, also when only a prefix of a
\* multi-token probe matches, it returns Ok(false) with curr, peek and the
\* lexer unchanged, never an error.
C17_MatchingPrimitives ==
    [][(/\ psr.state \in { "ready", "stepping" }
        /\ res'.op \in { "expect", "maybe" }
        /\ res'.err.kind \in { "None", "UnexpectedToken" })
       => IF res'.op = "expect"
          THEN ExpectStep(LexAll(src0), res'.arg,
                          MatchLen(res'.arg, psr.curr, psr.peek))
          ELSE MaybeStep(LexAll(src0), res'.arg,
                         MatchLen(res'.arg, psr.curr, psr.peek))]_vars

\* Parser::maybe(ts), m of the kinds matching: Ok(false) without a move
\* when the current token is not of the first kind, otherwise as
\* Parser::expect(ts)
MaybeFirstStep(S, ts, m) ==
    IF ts = <<>>
    THEN res'.st = "ok" /\ res'.val = <<TRUE>> /\ Advanced(S, 0)
    ELSE IF m = 0
    THEN /\ res'.st = "ok"
         /\ res'.val = <<FALSE>>
         /\ psr'.curr = psr.curr
         /\ psr'.peek = psr.peek
         /\ src' = src
    ELSE /\ ExpectStep(S, ts, m)
         /\ res'.st = "ok" => res'.val = <<TRUE>>

\* C17 amended: expect and maybe compare token kinds only. expect consumes
\* one token per expected kind while the kinds match and on a mismatch
\* returns UnexpectedToken{expected, found} without consuming the
\* mismatching token. maybe returns Ok(true) only after consuming exactly
\* the given kinds; when the current token is not of the first given kind
\* it returns Ok(false) with curr, peek and the lexer unchanged; when only
\* a prefix of a multi-token probe matches it returns the UnexpectedToken
\* error of expect, the matching prefix consumed. (A lexer error met while
\* a token is pulled is returned as it is.)
C17_MatchingFirstKind ==
    [][(/\ psr.state \in { "ready", "stepping" }
        /\ res'.op \in { "expect", "maybe" }
        /\ res'.err.kind \in { "None", "UnexpectedToken" })
       => IF res'.op = "expect"
          THEN ExpectStep(LexAll(src0), res'.arg,
                          MatchLen(res'.arg, psr.curr, psr.peek))
          ELSE MaybeFirstStep(LexAll(src0), res'.arg,
                              MatchLen(res'.arg, psr.curr, psr.peek))]_vars

\* `DROP a TABLE`: maybe(&[Drop, Table]) has consumed DROP and has failed
\* on Ident("a")
C17_Witness ==
    /\ parts = Spaced(<<wDROP, <<"a">>, wTABLE>>)
    /\ res.op = "maybe"
    /\ res.arg = <<"Drop", "Table">>
    /\ res.st = "err"
    /\ res.err = UnexpectedToken("Table", Tok("Ident", <<"a">>))
    /\ psr.curr = Tok("Ident", <<"a">>)
    /\ psr.peek = Tok("Table", <<>>)

\* C18: Parser::new followed by Parser::parse returns Ok or Err for every
\* text, and each call of Lexer::next that does not return Eof removes at
\* least one character from the remaining input, also when it returns an
\* error.
C18_Terminates ==
    [][/\ (out' # out /\ out'[Len(out')] # EofRes) => Len(src') < Len(src)
       /\ res'.op \in { "new", "parse" } => res'.st \in { "ok", "err" }]_vars

\* C19: Executor::run returns Error whenever lexing or parsing fails, also
\* when Parser::new fails on one of the first two tokens, and Success
\* otherwise; it never panics, and no statement is executed when parsing
\* fails.
C19_RunReturns ==
    (res.op = "run" /\ parts \in StmtSeqInputs)
    => IF HasBadFrag(parts)
       THEN res.st = "Error" /\ res.val = <<>>
       ELSE res.st = "Success"

\* the binary and the unary operators of the expression grammar
BinaryOps ==
    { "Or", "And", "Eq", "Gt", "Lt", "Ge", "Le", "Add", "Sub", "Mul", "Div" }

UnaryOps == { "Not", "Sub" }

\* every Binary and Unary node of the expression has an operator as its op
RECURSIVE OpsAreOperators(_)
OpsAreOperators(e) ==
    CASE e.e = "Binary" ->
           /\ e.op \in BinaryOps
           /\ \A i \in 1..2 : OpsAreOperators(e.args[i])
      [] e.e = "Unary" ->
           /\ e.op \in UnaryOps
           /\ OpsAreOperators(e.args[1])
      [] OTHER -> TRUE

\* the expressions of a statement
StmtExprs(st) ==
    CASE st.stmt = "Select" -> st.columns
      [] st.stmt = "InsertValues" -> Flatten(st.values)
      [] st.stmt = "Update" -> [i \in 1..Len(st.assigns) |-> st.assigns[i][2]]
      [] OTHER -> <<>>

\* C20: in every expression of a successful parse the op of each Binary
\* node is one of OR, AND, =, >, <, >=, <=, +, -, *, / and the op of each
\* Unary node is NOT or -; a `(` after a complete operand is never taken as
\* a binary operator, so a text with an unclosed `(` in an expression is
\* rejected.
C20_OperatorsOnly ==
    /\ (res.op = "parse" /\ res.st = "ok")
       => \A i \in 1..Len(res.val) :
            \A j \in 1..Len(StmtExprs(res.val[i])) :
              OpsAreOperators(StmtExprs(res.val[i])[j])
    /\ (parts \in ParenInputs /\ Finished)
       => res.op = "parse" /\ res.st = "err"

\* C21: binary operators of equal binding power associate to the left: for
\* a chain `a op1 b op2 c` with op1 and op2 of the same binding power
\* (`1 - 2 - 3`, `8 / 4 * 2`, `a < b >= c`) the expression is
\* Binary(op2, Binary(op1, a, b), c), with the operands in source order.
C21_LeftAssociative ==
    (IsBinChain(parts) /\ res.op = "parse"
       /\ BindingPower(BinOpKind(parts[5])) = BindingPower(BinOpKind(parts[9])))
    => /\ res.st = "ok"
       /\ Len(res.val) = 1
       /\ res.val[1].stmt = "Select"
       /\ res.val[1].columns =
            << Binary(BinOpKind(parts[9]),
                      Binary(BinOpKind(parts[5]), OperandExpr(parts[3]),
                             OperandExpr(parts[7])),
                      OperandExpr(parts[11])) >>

\* `1 < 2 >= 3`: two different operators of binding power 4
C21_Witness ==
    /\ parts = Spaced(<<wSELECT, <<"1">>, <<"<">>, <<"2">>, <<">","=">>,
                        <<"3">>, wFROM, <<"t">> >>)
    /\ res.op = "parse"
    /\ res.st = "ok"
    /\ res.val[1].columns =
         << Binary("Ge", Binary("Lt", Leaf("Int", <<"1">>),
                                Leaf("Int", <<"2">>)),
                   Leaf("Int", <<"3">>)) >>

StmtUpdate(table, assigns) ==
    [stmt |-> "Update", table |-> table, assigns |-> assigns,
     where_clause |-> <<>>]

\* the statement a form of AdjForms stands for
AdjStmt(x) ==
    CASE x = Flatten(Spaced(<<wDROP, wTABLE, <<"b">> >>)) ->
           StmtDrop(<<"b">>, FALSE, FALSE)
      [] x = Flatten(Spaced(<<wUPDATE, <<"t">>, wSET, <<"c">>, <<"=">>,
                              <<"1">> >>)) ->
           StmtUpdate(<<"t">>, << <<<<"c">>, Leaf("Int", <<"1">>)>> >>)
      [] x = Flatten(Spaced(<<wINSERT, wINTO, <<"t">>, wVALUES, <<"(">>,
                              <<"1">>, <<")">> >>)) ->
           StmtInsertValues(<<"t">>, <<>>, << <<Leaf("Int", <<"1">>)>> >>)
      [] x = Flatten(Spaced(<<wCREATE, wTABLE, <<"t">>, <<"(">>, <<"a">>,
                              <<"I","N","T">>, <<")">> >>)) ->
           StmtCreate(<<"t">>, << <<<<"a">>, "INTEGER">> >>)
      [] OTHER -> SepStmt(x)

\* the statements of a list of items of AdjItems, in their order
RECURSIVE AdjStmtsOf(_)
AdjStmtsOf(items) ==
    IF items = <<>> THEN <<>>
    ELSE IF IsStmtItem(Head(items))
         THEN <<AdjStmt(Head(items))>> \o AdjStmtsOf(Tail(items))
         ELSE AdjStmtsOf(Tail(items))

\* two statements of the text follow one another with no `;` between them
HasAdjacent(items) ==
    \E i \in 1..(Len(items) - 1) :
        IsStmtItem(items[i]) /\ IsStmtItem(items[i + 1])

\* C22: the `;` is not required between statements: when a complete
\* statement is directly followed by the leading keyword of another
\* (`DROP TABLE a DROP TABLE b`), Parser::parse returns Ok with all the
\* statements in source order; each statement ends at the first token its
\* grammar does not consume.
C22_SeparatorOptional ==
    (parts \in AdjInputs /\ Finished)
    => /\ res.op = "parse"
       /\ res.st = "ok"
       /\ res.val = AdjStmtsOf(ItemsOf(parts))

\* `DROP TABLE a DROP TABLE b` has given two statements
C22_Witness ==
    /\ parts = Spaced(<< Flatten(Spaced(<<wDROP, wTABLE, <<"a">> >>)),
                        Flatten(Spaced(<<wDROP, wTABLE, <<"b">> >>)) >>)
    /\ HasAdjacent(ItemsOf(parts))
    /\ res.op = "parse"
    /\ res.st = "ok"
    /\ res.val = << StmtDrop(<<"a">>, FALSE, FALSE),
                    StmtDrop(<<"b">>, FALSE, FALSE) >>

\* C10: Lexer::next, Parser::new and Parser::parse return Ok or Err and
\* never panic, also for INSERT INTO t [(cols)] SELECT ...
C10_NeverPanics ==
    /\ res.st # "panic"
    /\ psr.state # "panicked"

====
